---------------------------- MODULE Spec2Model ----------------------------
(***************************************************************************)
(* A model of dig-text-similarity-search: the date-sharded shard manager   *)
(* (RangeShards, DeployShards), its memoization, and the on-disk IVF       *)
(* builder (OnDiskIVFBuilder) working on a file system.                    *)
(*                                                                         *)
(* Strings of the program (paths, shard names, dates) are tuples of one-   *)
(* character strings, so that regular-expression search, str.replace and   *)
(* string comparison are computed character by character as Python does.   *)
(***************************************************************************)
EXTENDS Integers, Sequences, FiniteSets, TLC

(***************************************************************************)
(* Python string primitives                                                *)
(***************************************************************************)

\* Code point of a character (only the characters that occur in the model).
Ord(c) ==
    CASE c = "-" -> 45 [] c = "." -> 46 [] c = "/" -> 47
      [] c = "0" -> 48 [] c = "1" -> 49 [] c = "2" -> 50 [] c = "3" -> 51
      [] c = "4" -> 52 [] c = "5" -> 53 [] c = "6" -> 54 [] c = "7" -> 55
      [] c = "8" -> 56 [] c = "9" -> 57 [] c = "_" -> 95
      [] c = "a" -> 97 [] c = "b" -> 98 [] c = "c" -> 99 [] c = "d" -> 100
      [] c = "e" -> 101 [] c = "f" -> 102 [] c = "i" -> 105 [] c = "m" -> 109
      [] c = "n" -> 110 [] c = "o" -> 111 [] c = "t" -> 116 [] c = "u" -> 117
      [] c = "v" -> 118
      [] c = "x" -> 120 [] c = "y" -> 121 [] c = "z" -> 122

Digits == {"0", "1", "2", "3", "4", "5", "6", "7", "8", "9"}

SetMin(S) == CHOOSE x \in S : \A y \in S : x <= y

\* Python's  a <= b  on str: lexicographic on code points.
StrLE(a, b) ==
    LET n == IF Len(a) < Len(b) THEN Len(a) ELSE Len(b)
    IN  IF \A i \in 1..n : a[i] = b[i] THEN Len(a) <= Len(b)
        ELSE LET d == CHOOSE i \in 1..n :
                         a[i] # b[i] /\ \A h \in 1..(i - 1) : a[h] = b[h]
             IN  Ord(a[d]) < Ord(b[d])

\* pat occurs in s at position i.
OccursAt(s, pat, i) ==
    /\ i >= 1
    /\ i + Len(pat) - 1 <= Len(s)
    /\ \A j \in 1..Len(pat) : s[i + j - 1] = pat[j]

\* Python's  pat in s  on str.
StrContains(s, pat) == \E i \in 1..(Len(s) + 1) : OccursAt(s, pat, i)

\* Python's  s.replace(pat, rep): every non-overlapping occurrence, left to
\* right.
RECURSIVE StrReplace(_, _, _)
StrReplace(s, pat, rep) ==
    IF s = <<>> THEN <<>>
    ELSE IF OccursAt(s, pat, 1)
         THEN rep \o StrReplace(SubSeq(s, Len(pat) + 1, Len(s)), pat, rep)
         ELSE <<s[1]>> \o StrReplace(Tail(s), pat, rep)

\* s.endswith(suf)
EndsWith(s, suf) == OccursAt(s, suf, Len(s) - Len(suf) + 1)

\* The regular expression \d{4}[-/]\d{2}[-/]\d{2} matches s at position i.
date_seed(s, i) ==
    /\ i >= 1
    /\ i + 9 <= Len(s)
    /\ \A j \in {0, 1, 2, 3, 5, 6, 8, 9} : s[i + j] \in Digits
    /\ s[i + 4] \in {"-", "/"}
    /\ s[i + 7] \in {"-", "/"}

\* re.search(date_seed, s): None (no match) or the leftmost match.
ReSearchIsNone(s) == ~ \E i \in 1..Len(s) : date_seed(s, i)

\* re.search(date_seed, s).group() when there is a match.
ReSearchGroup(s) ==
    LET i == CHOOSE j \in 1..Len(s) :
                 date_seed(s, j) /\ \A h \in 1..(j - 1) : ~date_seed(s, h)
    IN  SubSeq(s, i, i + 9)

DotIndex == <<".", "i", "n", "d", "e", "x">>
DotIvfdata == <<".", "i", "v", "f", "d", "a", "t", "a">>

(***************************************************************************)
(* The shard files of the deployment and what they hold                    *)
(***************************************************************************)

D0101 == <<"2", "0", "2", "0", "-", "0", "1", "-", "0", "1">>
D0102 == <<"2", "0", "2", "0", "-", "0", "1", "-", "0", "2">>
D0103 == <<"2", "0", "2", "0", "-", "0", "1", "-", "0", "3">>
DateMin == <<"0", "0", "0", "0", "-", "0", "0", "-", "0", "0">>
DateMax == <<"9", "9", "9", "9", "-", "9", "9", "-", "9", "9">>

\* 2020-01-01_a.index, 2020-01-02_b.index, x.index (a name without a date)
PathA == D0101 \o <<"_", "a">> \o DotIndex
PathB == D0102 \o <<"_", "b">> \o DotIndex
PathX == <<"x">> \o DotIndex
\* m.index: a path at which there is no readable index file
PathM == <<"m">> \o DotIndex
\* 2020-01-01_a.index.index: a file that '*.index' matches as well
PathAA == PathA \o DotIndex

ShardPaths == {PathA, PathB, PathX}

\* faiss.read_index(path) succeeds.
Readable(path) == path # PathM

\* The vectors stored in a shard file, in posting-list order: the vector's
\* id and its position on a line (a one-dimensional embedding).
ShardData(path) ==
    CASE path = PathA -> << [id |-> 10002, pos |-> 3], [id |-> 10001, pos |-> 1] >>
      [] path = PathB -> << [id |-> 20001, pos |-> 2] >>
      [] path = PathX -> << [id |-> 30001, pos |-> 1] >>
      [] path = PathAA -> << [id |-> 40001, pos |-> 2] >>
      [] OTHER -> << >>

\* Squared L2 distance between a query and a stored vector.
L2(q, pos) == (q - pos) * (q - pos)

RECURSIVE SelectSeq2(_, _, _)
SelectSeq2(s, q, radius) ==
    IF s = <<>> THEN <<>>
    ELSE IF L2(q, s[1].pos) <= radius
         THEN << <<L2(q, s[1].pos), s[1].id>> >> \o SelectSeq2(Tail(s), q, radius)
         ELSE SelectSeq2(Tail(s), q, radius)

\* index.range_search(query, radius): every (distance, id) within the
\* radius, in posting-list order (not sorted by distance).
neighborhood(path, q, radius) == SelectSeq2(ShardData(path), q, radius)

\* dd[:k], ii[:k]
Take(s, k) == SubSeq(s, 1, IF k < Len(s) THEN k ELSE Len(s))

PairLE(a, b) == a[1] < b[1] \/ (a[1] = b[1] /\ a[2] <= b[2])

RECURSIVE Insert(_, _)
Insert(x, s) ==
    IF s = <<>> THEN <<x>>
    ELSE IF PairLE(x, s[1]) THEN <<x>> \o s
         ELSE <<s[1]>> \o Insert(x, Tail(s))

\* BaseIndexer.joint_sort: the (distance, id) pairs by ascending distance.
RECURSIVE joint_sort(_)
joint_sort(s) == IF s = <<>> THEN <<>> ELSE Insert(s[1], joint_sort(Tail(s)))


(***************************************************************************)
(* State                                                                   *)
(***************************************************************************)

VARIABLES
    lock,             \* RangeShards.lock
    shards,           \* RangeShards.shards: the dict, in insertion order
    pipes,            \* the Pipe of every Shard ever constructed
    paths_to_shards,  \* RangeShards.paths_to_shards
    n_shards,         \* RangeShards.n_shards
    results,          \* RangeShards.results: the one output Queue
    search_cache,     \* the cache of @faiss_cache(256) on RangeShards.search
    pc,               \* where each calling thread is
    call,             \* the call each thread is in, with its arguments
    it,               \* search: entries of the dict the loop has visited
    it_used,          \* search: size of the dict when the iteration began
    cur,              \* search: the (hpipe, shard) of the current iteration
    n_results,        \* search: the local n_results
    DI,               \* search: the local D, I lists, as (distance, id) pairs
    sent,             \* search: dict positions this call has dispatched to
    ret,              \* what each thread's last call gave back
    ncalls            \* calls started so far

mgr_vars == << lock, shards, pipes, paths_to_shards, n_shards, results,
               search_cache, pc, call, it, it_used, cur, n_results, DI,
               sent, ret, ncalls >>

VARIABLES
    deploy_paths,     \* DeployShards.paths_to_shards, per class
    deploy_index,     \* the shards added to DeployShards.index, per class
    deploy_last       \* the path of the last add_shard call, per class

deploy_vars == << deploy_paths, deploy_index, deploy_last >>

VARIABLES
    files,            \* the file system: path -> what the file holds
    dirs,             \* the directories that exist
    bpc,              \* where the builder is
    bargs,            \* the arguments of the builder call in progress
    current_indexes,  \* zip_indexes: find_indexes(to_dir)
    moving_indexes,   \* zip_indexes: find_indexes(mv_dir)
    moving_groups,    \* zip_indexes: the dict date -> group, in insertion order
    stale_files,      \* zip_indexes: to remove after the zip
    optional_del,     \* zip_indexes: to remove when the user says so
    gi,               \* zip_indexes: groups merged so far
    n_vect,           \* vectors merged so far in this call
    margs,            \* merge_IVFs: its arguments and where it returns to
    files0,           \* the file system when the call in progress began
    bret,             \* what the last builder call gave back
    nbcalls,          \* builder calls started so far
    subindex_path_totals,  \* OnDiskIVFBuilder: the catalogue path -> ntotal
    invlist_paths     \* DiskBuilderIVF: the paths of the sub-indexes made

build_vars == << files, dirs, bpc, bargs, current_indexes, moving_indexes,
                 moving_groups, stale_files, optional_del, gi, n_vect, margs,
                 files0, bret, nbcalls, subindex_path_totals, invlist_paths >>

\* The catalogues of sub-indexes of the two builders.
catalogue_vars == << subindex_path_totals, invlist_paths >>

VARIABLES
    sr,               \* a search result handed to a query processor
    qk,               \* the k it is cut to
    payload,          \* the payload made of it
    pop,              \* by which processor ("none": not yet)
    qpc,              \* where query_corpus is
    qargs,            \* its arguments
    q_cache,          \* the memoization cache of query_corpus
    n_queries,        \* QueryProcessor.n_queries
    qret              \* what the last query_corpus call gave back

payload_vars == << sr, qk, payload, pop >>
query_vars == << qpc, qargs, q_cache, n_queries, qret >>
qp_vars == << payload_vars, query_vars >>

\* What an action of the shard manager leaves alone.
not_mgr == << deploy_vars, build_vars, qp_vars >>

\* What an action of the builder leaves alone.
not_build == << mgr_vars, deploy_vars, qp_vars >>

\* The threads of the server that call into the one RangeShards object.
Threads == {"t1", "t2"}

\* Calls started in one run of the model.
MaxCalls == 3

\* Capacity of the cache on RangeShards.search.
SearchCacheSize == 256

\* What the shard directory holds when the manager is constructed.
InitialDirs == { <<PathA>>, <<PathA, PathB>> }

\* Arguments of the search calls: query vector, k, radius, date window.
SearchArgs ==
    { [q |-> 1, k |-> 1, radius |-> 4, start |-> DateMin, end |-> DateMax],
      [q |-> 1, k |-> 2, radius |-> 4, start |-> D0102,   end |-> D0102],
      [q |-> 3, k |-> 2, radius |-> 1, start |-> D0101,   end |-> D0102],
      [q |-> 3, k |-> 1, radius |-> 1, start |-> D0101,   end |-> D0101] }

NoArgs == [q |-> 0, k |-> 0, radius |-> 0, start |-> <<>>, end |-> <<>>]
NoCall == [op |-> "none", id |-> 0, args |-> NoArgs, path |-> <<>>, again |-> FALSE]
NoCur  == [pipe |-> 0, path |-> <<>>]
NoRet  == [kind |-> "none", call |-> NoCall, val |-> <<>>]

(***************************************************************************)
(* RangeShards: construction                                               *)
(***************************************************************************)

\* shard_name = str(shard_path).replace('.index', '')
shard_name(path) == StrReplace(path, DotIndex, <<>>)

ShardNames(sh) == {sh[j].name : j \in 1..Len(sh)}

\* self.shards[shard_name] = (handler_pipe, shard), the Shard being built on
\* a new Pipe: a new key goes last, an existing key keeps its place and
\* takes the new value.
load_shard(sh, path, pipe) ==
    LET name  == shard_name(path)
        entry == [name |-> name, path |-> path, pipe |-> pipe]
    IN  IF name \in ShardNames(sh)
        THEN [j \in 1..Len(sh) |-> IF sh[j].name = name THEN entry ELSE sh[j]]
        ELSE Append(sh, entry)

\* The loop of __init__ over paths_to_shards.
RECURSIVE LoadAll(_, _, _)
LoadAll(sh, paths, nextPipe) ==
    IF paths = <<>> THEN sh
    ELSE LoadAll(load_shard(sh, Head(paths), nextPipe), Tail(paths), nextPipe + 1)

\* RangeShards.__init__: every worker started (its run() finds nothing to
\* poll and ends), n_shards counted from the dict.
MgrInitWith(dir) ==
    /\ paths_to_shards = dir
    /\ shards = LoadAll(<<>>, dir, 1)
    /\ pipes = [j \in 1..Len(dir) |-> <<>>]
    /\ n_shards = Len(shards)
    /\ lock = FALSE
    /\ results = <<>>
    /\ search_cache = <<>>
    /\ pc = [t \in Threads |-> "idle"]
    /\ call = [t \in Threads |-> NoCall]
    /\ it = [t \in Threads |-> 0]
    /\ it_used = [t \in Threads |-> -1]
    /\ cur = [t \in Threads |-> NoCur]
    /\ n_results = [t \in Threads |-> 0]
    /\ DI = [t \in Threads |-> <<>>]
    /\ sent = [t \in Threads |-> {}]
    /\ ret = [t \in Threads |-> NoRet]
    /\ ncalls = 0

MgrInit == \E dir \in InitialDirs : MgrInitWith(dir)

(***************************************************************************)
(* The memoization decorator                                               *)
(***************************************************************************)

CacheKeys(c) == {c[j].key : j \in 1..Len(c)}

CacheValue(c, key) == c[CHOOSE j \in 1..Len(c) : c[j].key = key].val

RECURSIVE CacheDrop(_, _)
CacheDrop(c, key) ==
    IF c = <<>> THEN <<>>
    ELSE IF c[1].key = key THEN CacheDrop(Tail(c), key)
         ELSE <<c[1]>> \o CacheDrop(Tail(c), key)

\* A hit makes the entry the most recently used one.
CacheTouch(c, key) ==
    Append(CacheDrop(c, key), [key |-> key, val |-> CacheValue(c, key)])

\* A result is stored as the most recently used entry; over capacity the
\* least recently used entry goes.
CachePut(c, key, val, size) ==
    LET d == Append(CacheDrop(c, key), [key |-> key, val |-> val])
    IN  IF Len(d) > size THEN Tail(d) ELSE d

\* The cache key of a search call: (query_vector, k, radius, start, end).
SearchKey(a) == << a.q, a.k, a.radius, a.start, a.end >>

(***************************************************************************)
(* RangeShards.search                                                      *)
(***************************************************************************)

Idle(t) == pc[t] = "idle"

\* The window test with the end date left out.
InWindow_exclusive(start, shard_date, end) ==
    StrLE(start, shard_date) /\ StrLE(shard_date, end) /\ shard_date # end

\* start <= shard_date <= end
InWindow(start, shard_date, end) == StrLE(start, shard_date) /\ StrLE(shard_date, end)

\* The call ends with an exception: the locals are gone, the lock and the
\* queue stay as they are.
Raise(t) ==
    /\ pc' = [pc EXCEPT ![t] = "idle"]
    /\ ret' = [ret EXCEPT ![t] = [kind |-> "raised", call |-> call[t], val |-> <<>>]]
    /\ call' = [call EXCEPT ![t] = NoCall]
    /\ it' = [it EXCEPT ![t] = 0]
    /\ it_used' = [it_used EXCEPT ![t] = -1]
    /\ cur' = [cur EXCEPT ![t] = NoCur]
    /\ n_results' = [n_results EXCEPT ![t] = 0]
    /\ DI' = [DI EXCEPT ![t] = <<>>]
    /\ sent' = [sent EXCEPT ![t] = {}]

\* A thread calls search(query_vector, k, radius, start, end). The decorator
\* answers from the cache when it holds the key; otherwise the body runs.
search_call(t, a) ==
    /\ Idle(t)
    /\ UNCHANGED not_mgr
    /\ ncalls < MaxCalls
    /\ ncalls' = ncalls + 1
    /\ LET c == [op |-> "search", id |-> ncalls + 1, args |-> a, path |-> <<>>,
                 again |-> FALSE]
       IN  IF SearchKey(a) \in CacheKeys(search_cache)
           THEN /\ ret' = [ret EXCEPT ![t] =
                             [kind |-> "cached", call |-> c,
                              val |-> CacheValue(search_cache, SearchKey(a))]]
                /\ search_cache' = CacheTouch(search_cache, SearchKey(a))
                /\ UNCHANGED << pc, call >>
           ELSE /\ ret' = [ret EXCEPT ![t] = NoRet]
                /\ call' = [call EXCEPT ![t] = c]
                /\ pc' = [pc EXCEPT ![t] = "wait"]
                /\ UNCHANGED search_cache
    /\ UNCHANGED << lock, shards, pipes, paths_to_shards, n_shards, results,
                    it, it_used, cur, n_results, DI, sent >>

\* while self.lock: sleep(1)   -- the test that finds the lock free
search_wait(t) ==
    /\ pc[t] = "wait"
    /\ UNCHANGED not_mgr
    /\ lock = FALSE
    /\ pc' = [pc EXCEPT ![t] = "lock"]
    /\ UNCHANGED << lock, shards, pipes, paths_to_shards, n_shards, results,
                    search_cache, call, it, it_used, cur, n_results, DI, sent,
                    ret, ncalls >>

\* self.lock = True; n_results = 0
search_lock(t) ==
    /\ pc[t] = "lock"
    /\ UNCHANGED not_mgr
    /\ lock' = TRUE
    /\ n_results' = [n_results EXCEPT ![t] = 0]
    /\ pc' = [pc EXCEPT ![t] = "iter"]
    /\ UNCHANGED << shards, pipes, paths_to_shards, n_shards, results,
                    search_cache, call, it, it_used, cur, DI, sent, ret, ncalls >>

\* for shard_name, (hpipe, shard) in self.shards.items(): one step of the
\* dict iterator, the date of the entry and the window test. The iterator
\* raises RuntimeError when the dict has changed size since it began;
\* re.search(...).group() raises AttributeError when the name has no date.
search_iter(t) ==
    /\ pc[t] = "iter"
    /\ UNCHANGED not_mgr
    /\ LET used == IF it_used[t] = -1 THEN Len(shards) ELSE it_used[t]
           a    == call[t].args
       IN  IF Len(shards) # used
           THEN Raise(t)
           ELSE IF it[t] = used
           THEN /\ pc' = [pc EXCEPT ![t] = "empty"]
                /\ it_used' = [it_used EXCEPT ![t] = used]
                /\ UNCHANGED << call, it, cur, n_results, DI, sent, ret >>
           ELSE LET e == shards[it[t] + 1]
                IN  IF ReSearchIsNone(e.name)
                    THEN Raise(t)
                    ELSE /\ it' = [it EXCEPT ![t] = it[t] + 1]
                         /\ it_used' = [it_used EXCEPT ![t] = used]
                         /\ cur' = [cur EXCEPT ![t] = [pipe |-> e.pipe, path |-> e.path]]
                         /\ pc' = [pc EXCEPT ![t] =
                                IF InWindow(a.start, ReSearchGroup(e.name), a.end)
                                THEN "send" ELSE "iter"]
                         /\ UNCHANGED << call, n_results, DI, sent, ret >>
    /\ UNCHANGED << lock, shards, pipes, paths_to_shards, n_shards, results,
                    search_cache, ncalls >>

\* hpipe.send((query_vector, radius))
search_send(t) ==
    /\ pc[t] = "send"
    /\ UNCHANGED not_mgr
    /\ pipes' = [pipes EXCEPT ![cur[t].pipe] =
                    Append(@, [q |-> call[t].args.q, radius |-> call[t].args.radius,
                               by |-> call[t].id])]
    /\ sent' = [sent EXCEPT ![t] = @ \cup {it[t]}]
    /\ pc' = [pc EXCEPT ![t] = "poll"]
    /\ UNCHANGED << lock, shards, paths_to_shards, n_shards, results,
                    search_cache, call, it, it_used, cur, n_results, DI, ret,
                    ncalls >>

\* shard.run(), called in the calling thread: if self.input.poll(); when
\* nothing is in the pipe run() returns at once and n_results += 1 follows.
run_poll(t) ==
    /\ pc[t] = "poll"
    /\ UNCHANGED not_mgr
    /\ IF pipes[cur[t].pipe] # <<>>
       THEN /\ pc' = [pc EXCEPT ![t] = "recv"]
            /\ UNCHANGED n_results
       ELSE /\ pc' = [pc EXCEPT ![t] = "iter"]
            /\ n_results' = [n_results EXCEPT ![t] = @ + 1]
    /\ UNCHANGED << lock, shards, pipes, paths_to_shards, n_shards, results,
                    search_cache, call, it, it_used, cur, DI, sent, ret, ncalls >>

\* self.input.recv() (blocks until the pipe holds a message), the range
\* search of the message's query on this shard's index,
\* self.output.put((dd, ii)), then n_results += 1 back in search.
run_recv(t) ==
    /\ pc[t] = "recv"
    /\ UNCHANGED not_mgr
    /\ pipes[cur[t].pipe] # <<>>
    /\ LET m == Head(pipes[cur[t].pipe])
       IN  results' = Append(results,
                         [di |-> neighborhood(cur[t].path, m.q, m.radius),
                          path |-> cur[t].path, q |-> m.q, radius |-> m.radius,
                          by |-> m.by])
    /\ pipes' = [pipes EXCEPT ![cur[t].pipe] = Tail(@)]
    /\ n_results' = [n_results EXCEPT ![t] = @ + 1]
    /\ pc' = [pc EXCEPT ![t] = "iter"]
    /\ UNCHANGED << lock, shards, paths_to_shards, n_shards, search_cache,
                    call, it, it_used, cur, DI, sent, ret, ncalls >>

\* while n_results > 0 or not self.results.empty():
search_empty(t) ==
    /\ pc[t] = "empty"
    /\ UNCHANGED not_mgr
    /\ pc' = [pc EXCEPT ![t] =
                 IF n_results[t] > 0 \/ results # <<>> THEN "get" ELSE "unlock"]
    /\ UNCHANGED << lock, shards, pipes, paths_to_shards, n_shards, results,
                    search_cache, call, it, it_used, cur, n_results, DI, sent,
                    ret, ncalls >>

\* dd, ii = self.results.get() (blocks while the queue is empty);
\* D.extend(dd[:k]), I.extend(ii[:k]); n_results -= 1
search_get(t) ==
    /\ pc[t] = "get"
    /\ UNCHANGED not_mgr
    /\ results # <<>>
    /\ DI' = [DI EXCEPT ![t] = @ \o Take(Head(results).di, call[t].args.k)]
    /\ results' = Tail(results)
    /\ n_results' = [n_results EXCEPT ![t] = @ - 1]
    /\ pc' = [pc EXCEPT ![t] = "empty"]
    /\ UNCHANGED << lock, shards, pipes, paths_to_shards, n_shards,
                    search_cache, call, it, it_used, cur, sent, ret, ncalls >>

\* self.lock = False; return self.joint_sort([D], [I]); the decorator
\* stores the returned value under the call's key.
search_unlock(t) ==
    /\ pc[t] = "unlock"
    /\ UNCHANGED not_mgr
    /\ lock' = FALSE
    /\ ret' = [ret EXCEPT ![t] =
                 [kind |-> "computed", call |-> call[t], val |-> joint_sort(DI[t])]]
    /\ search_cache' = CachePut(search_cache, SearchKey(call[t].args),
                                joint_sort(DI[t]), SearchCacheSize)
    /\ pc' = [pc EXCEPT ![t] = "idle"]
    /\ call' = [call EXCEPT ![t] = NoCall]
    /\ it' = [it EXCEPT ![t] = 0]
    /\ it_used' = [it_used EXCEPT ![t] = -1]
    /\ cur' = [cur EXCEPT ![t] = NoCur]
    /\ n_results' = [n_results EXCEPT ![t] = 0]
    /\ DI' = [DI EXCEPT ![t] = <<>>]
    /\ sent' = [sent EXCEPT ![t] = {}]
    /\ UNCHANGED << shards, pipes, paths_to_shards, n_shards, results, ncalls >>

(***************************************************************************)
(* RangeShards.add_shard                                                   *)
(***************************************************************************)

add_shard_call(t, path) ==
    /\ Idle(t)
    /\ UNCHANGED not_mgr
    /\ ncalls < MaxCalls
    /\ ncalls' = ncalls + 1
    /\ call' = [call EXCEPT ![t] =
                  [op |-> "add_shard", id |-> ncalls + 1, args |-> NoArgs, path |-> path,
                   again |-> /\ ret[t].kind \in {"added", "warned", "raised"}
                             /\ ret[t].call.op = "add_shard"
                             /\ ret[t].call.path = path]]
    /\ ret' = [ret EXCEPT ![t] = NoRet]
    /\ pc' = [pc EXCEPT ![t] = "a_lock"]
    /\ UNCHANGED << lock, shards, pipes, paths_to_shards, n_shards, results,
                    search_cache, it, it_used, cur, n_results, DI, sent >>

\* self.lock = True
add_shard_lock(t) ==
    /\ pc[t] = "a_lock"
    /\ UNCHANGED not_mgr
    /\ lock' = TRUE
    /\ pc' = [pc EXCEPT ![t] = "a_check"]
    /\ UNCHANGED << shards, pipes, paths_to_shards, n_shards, results,
                    search_cache, call, it, it_used, cur, n_results, DI, sent,
                    ret, ncalls >>

\* The online test that looks at the shard map only.
AlreadyOnline_names_only(path) == shard_name(path) \in ShardNames(shards)

\* new_shard_path in self.paths_to_shards or shard_name in self.shards
AlreadyOnline(path) ==
    \/ \E j \in 1..Len(paths_to_shards) : paths_to_shards[j] = path
    \/ shard_name(path) \in ShardNames(shards)

\* if ... : print('WARNING: This shard is already online') else: ...
add_shard_check(t) ==
    /\ pc[t] = "a_check"
    /\ UNCHANGED not_mgr
    /\ pc' = [pc EXCEPT ![t] =
                 IF AlreadyOnline(call[t].path) THEN "a_warn" ELSE "a_append"]
    /\ UNCHANGED << lock, shards, pipes, paths_to_shards, n_shards, results,
                    search_cache, call, it, it_used, cur, n_results, DI, sent,
                    ret, ncalls >>

\* self.paths_to_shards.append(new_shard_path)
add_shard_append(t) ==
    /\ pc[t] = "a_append"
    /\ UNCHANGED not_mgr
    /\ paths_to_shards' = Append(paths_to_shards, call[t].path)
    /\ pc' = [pc EXCEPT ![t] = "a_load"]
    /\ UNCHANGED << lock, shards, pipes, n_shards, results, search_cache, call,
                    it, it_used, cur, n_results, DI, sent, ret, ncalls >>

\* self.load_shard(new_shard_path): Shard.__init__ reads the index file, and
\* raises when it cannot.
add_shard_load(t) ==
    /\ pc[t] = "a_load"
    /\ UNCHANGED not_mgr
    /\ IF Readable(call[t].path)
       THEN /\ pipes' = Append(pipes, <<>>)
            /\ shards' = load_shard(shards, call[t].path, Len(pipes) + 1)
            /\ pc' = [pc EXCEPT ![t] = "a_unlock"]
            /\ UNCHANGED << call, it, it_used, cur, n_results, DI, sent, ret >>
       ELSE /\ Raise(t)
            /\ UNCHANGED << pipes, shards >>
    /\ UNCHANGED << lock, paths_to_shards, n_shards, results, search_cache, ncalls >>

\* self.lock = False, on either branch, and the call returns
add_shard_unlock(t) ==
    /\ pc[t] \in {"a_warn", "a_unlock"}
    /\ UNCHANGED not_mgr
    /\ lock' = FALSE
    /\ ret' = [ret EXCEPT ![t] =
                 [kind |-> IF pc[t] = "a_warn" THEN "warned" ELSE "added",
                  call |-> call[t], val |-> <<>>]]
    /\ pc' = [pc EXCEPT ![t] = "idle"]
    /\ call' = [call EXCEPT ![t] = NoCall]
    /\ UNCHANGED << shards, pipes, paths_to_shards, n_shards, results,
                    search_cache, it, it_used, cur, n_results, DI, sent, ncalls >>

(***************************************************************************)
(* DeployShards (dt_sim.indexer and digtextsimilaritysearch.indexer)       *)
(***************************************************************************)

DeployClasses == {"dt_sim", "digtextsimilaritysearch"}

DeployInit ==
    /\ \E dir \in InitialDirs :
          /\ deploy_paths = [c \in DeployClasses |-> dir]
          /\ deploy_index = [c \in DeployClasses |-> dir]
    /\ deploy_last = [c \in DeployClasses |-> <<>>]

DeployOff ==
    /\ deploy_paths = [c \in DeployClasses |-> <<>>]
    /\ deploy_index = [c \in DeployClasses |-> <<>>]
    /\ deploy_last = [c \in DeployClasses |-> <<>>]

\* new_shard_path in self.paths_to_shards
DeployOnline(c, path) ==
    \E j \in 1..Len(deploy_paths[c]) : deploy_paths[c][j] = path

\* DeployShards.add_shard, the same code in both classes: the warning and
\* return when the path is listed; else the path is appended, then the shard
\* is read (which raises when the file cannot be read) and added to the index.
deploy_add_shard(c, path) ==
    /\ ncalls < MaxCalls
    /\ ncalls' = ncalls + 1
    /\ deploy_last' = [deploy_last EXCEPT ![c] = path]
    /\ IF DeployOnline(c, path)
       THEN UNCHANGED << deploy_paths, deploy_index >>
       ELSE /\ deploy_paths' = [deploy_paths EXCEPT ![c] = Append(@, path)]
            /\ deploy_index' = [deploy_index EXCEPT ![c] =
                                  IF Readable(path) THEN Append(@, path) ELSE @]
    /\ UNCHANGED << lock, shards, pipes, paths_to_shards, n_shards, results,
                    search_cache, pc, call, it, it_used, cur, n_results, DI,
                    sent, ret >>
    /\ UNCHANGED << build_vars, qp_vars >>

(***************************************************************************)
(* The file system the builder works on                                    *)
(***************************************************************************)

\* p.join(dir, name)
join(dir, name) == dir \o <<"/">> \o name

\* path.split('/')[-1]
RECURSIVE LastSegment(_)
LastSegment(path) ==
    IF ~StrContains(path, <<"/">>) THEN path
    ELSE LastSegment(Tail(path))

\* The directory a path lies in; a bare file name lies in the working
\* directory, named by the empty path.
DirName(path) ==
    IF ~StrContains(path, <<"/">>) THEN <<>>
    ELSE SubSeq(path, 1, Len(path) - Len(LastSegment(path)) - 1)

\* str(path).replace('.index', '.ivfdata')
ivfdata_of(path) == StrReplace(path, DotIndex, DotIvfdata)

DirM == <<"m">>
DirT == <<"t">>

\* m/2020-01-01_a.index, m/2020-01-01_b.index, m/2020-01-01_c.index,
\* m/2020-01-02_a.index: freshly built indexes in the directory to zip from.
MvA == join(DirM, D0101 \o <<"_", "a">> \o DotIndex)
MvB == join(DirM, D0101 \o <<"_", "b">> \o DotIndex)
MvC == join(DirM, D0101 \o <<"_", "c">> \o DotIndex)
MvD == join(DirM, D0102 \o <<"_", "a">> \o DotIndex)

\* m/u.index: a name without a date; m/2020-01-01_2020-01-02_z.index: a name
\* with two dates.
MvU == join(DirM, <<"u">> \o DotIndex)
Mv2 == join(DirM, D0101 \o <<"_">> \o D0102 \o <<"_", "z">> \o DotIndex)

\* t/2020-01-01_o.index: a shard of an earlier zip in the target directory.
ToOld == join(DirT, D0101 \o <<"_", "o">> \o DotIndex)

\* The editable part of the new file names (partial_filename).
Tag == <<"n">>

\* b.index: path_to_base_index
BasePath == <<"b">> \o DotIndex

\* What a file holds. An index file has its posting-list entries (the vector
\* ids, in list order) and, when its lists are on disk, the path of its
\* .ivfdata file; an .ivfdata file has the entries.
IndexFile(ids, data) ==
    [kind |-> "index", trained |-> TRUE, ntotal |-> Len(ids), ids |-> ids,
     data |-> data]
DataFile(ids) == [kind |-> "ivfdata", trained |-> FALSE, ids |-> ids, data |-> <<>>]

isfile(path) == path \in DOMAIN files
isdir(dir) == dir \in dirs

\* A file can be created at the path: its directory is there.
CanCreate(path) == DirName(path) = <<>> \/ isdir(DirName(path))

\* f with one more file / without a file.
WriteFile(f, path, content) ==
    [x \in DOMAIN f \cup {path} |-> IF x = path THEN content ELSE f[x]]
RemoveFile(f, path) == [x \in DOMAIN f \ {path} |-> f[x]]

\* An on-disk index with its .ivfdata beside it.
WithPair(f, path, ids) ==
    WriteFile(WriteFile(f, path, IndexFile(ids, ivfdata_of(path))),
              ivfdata_of(path), DataFile(ids))

MvIds(path) ==
    CASE path = MvA -> <<10001>>
      [] path = MvB -> <<10002, 10003>>
      [] path = MvC -> <<10004>>
      [] path = MvD -> <<20001>>
      [] path = ToOld -> <<10009>>
      [] path = MvU -> <<30001>>
      [] path = Mv2 -> <<10005>>
      [] OTHER -> <<70001>>

RECURSIVE WithPairs(_, _)
WithPairs(f, paths) ==
    IF paths = {} THEN f
    ELSE LET x == CHOOSE y \in paths : TRUE
         IN  WithPairs(WithPair(f, x, MvIds(x)), paths \ {x})

\* The output path of a date group: p.join(to_dir, f'{pub_date}_{partial_filename}.index')
new_idx_path(to_dir, pub_date, partial_filename) ==
    join(to_dir, pub_date \o <<"_">> \o partial_filename \o DotIndex)

\* What the directory to zip from holds at the start.
MvSets == { {}, {MvA}, {MvA, MvB}, {MvA, MvD}, {MvA, MvB, MvC}, {MvA, MvB, MvC, MvD} }

\* What the target directory holds at the start: it does not exist; it is
\* empty; it holds a shard of the first date; the output path of the first
\* date is taken by a shard; only the output's .ivfdata path is taken.
ToStates == {"absent", "empty", "stale", "occupied", "orphan"}

ToFiles(f, to) ==
    CASE to = "stale" -> WithPair(f, ToOld, MvIds(ToOld))
      [] to = "occupied" -> WithPair(f, new_idx_path(DirT, D0101, Tag), <<70001>>)
      [] to = "orphan" ->
            WriteFile(f, ivfdata_of(new_idx_path(DirT, D0101, Tag)), DataFile(<<70001>>))
      [] OTHER -> f

\* The base index file: trained and empty, with vectors in it, or empty and
\* not trained.
BaseFiles == { IndexFile(<<>>, <<>>), IndexFile(<<90001>>, <<>>),
               [IndexFile(<<>>, <<>>) EXCEPT !.trained = FALSE] }

EmptyFS == [x \in {} |-> 0]

NoBArgs == [op |-> "none", mv_dir |-> <<>>, to_dir |-> <<>>,
            partial_filename |-> <<>>, mkdir |-> FALSE, only_cp |-> FALSE,
            index_path |-> <<>>, ivfdata_path |-> <<>>, ivfindex_paths |-> <<>>]
NoMArgs == [index_path |-> <<>>, ivfdata_path |-> <<>>, ivfindex_paths |-> <<>>,
            ntotal |-> 0, back |-> "idle"]
NoBRet == [kind |-> "none", val |-> 0, why |-> "none", args |-> NoBArgs]

BuildLocals0 ==
    /\ bpc = "idle"
    /\ bargs = NoBArgs
    /\ current_indexes = <<>>
    /\ moving_indexes = <<>>
    /\ moving_groups = <<>>
    /\ stale_files = <<>>
    /\ optional_del = <<>>
    /\ gi = 0
    /\ n_vect = 0
    /\ margs = NoMArgs
    /\ bret = NoBRet
    /\ nbcalls = 0
    /\ subindex_path_totals = <<>>
    /\ invlist_paths = <<>>

\* The files of the directory to zip from that are sub-indexes as
\* generate_subindex writes them: one file, no .ivfdata beside it.
MvInline == { {}, {MvD} }

RECURSIVE WithSubs(_, _)
WithSubs(f, paths) ==
    IF paths = {} THEN f
    ELSE LET x == CHOOSE y \in paths : TRUE
         IN  WithSubs(WriteFile(f, x, IndexFile(MvIds(x), <<>>)), paths \ {x})

BuildInit ==
    /\ \E mv \in MvSets : \E inl \in MvInline :
       \E to \in ToStates : \E base \in BaseFiles :
          /\ files = WriteFile(ToFiles(WithSubs(WithPairs(EmptyFS, mv \ inl),
                                                 mv \cap inl), to),
                                BasePath, base)
          /\ dirs = IF to = "absent" THEN {DirM} ELSE {DirM, DirT}
    /\ files0 = files
    /\ BuildLocals0

BuildOff ==
    /\ files = EmptyFS
    /\ dirs = {}
    /\ files0 = files
    /\ BuildLocals0

\* Calls of the builder in one run of the model.
MaxBuildCalls == 2

(***************************************************************************)
(* OnDiskIVFBuilder                                                        *)
(***************************************************************************)

RECURSIVE SortedInsert(_, _)
SortedInsert(x, s) ==
    IF s = <<>> THEN <<x>>
    ELSE IF StrLE(x, s[1]) THEN <<x>> \o s
         ELSE <<s[1]>> \o SortedInsert(x, Tail(s))

RECURSIVE SortedSeq(_)
SortedSeq(S) ==
    IF S = {} THEN <<>>
    ELSE LET x == CHOOSE y \in S : TRUE
         IN  SortedInsert(x, SortedSeq(S \ {x}))

\* The .index files directly in check_dir.
IndexFilesIn(f, check_dir) ==
    { x \in DOMAIN f :
        /\ OccursAt(x, check_dir \o <<"/">>, 1)
        /\ EndsWith(x, DotIndex)
        /\ LastSegment(x) = SubSeq(x, Len(check_dir) + 2, Len(x)) }

\* find_indexes(check_dir): the .index files directly in check_dir, sorted.
find_indexes(f, check_dir) == SortedSeq(IndexFilesIn(f, check_dir))

\* The list without its i-th element: list.pop(i)
PopAt(l, i) == SubSeq(l, 1, i - 1) \o SubSeq(l, i + 1, Len(l))

\* moving_indexes.index(idx_path): the first position holding idx_path
IndexOf(l, x) == SetMin({i \in 1..Len(l) : l[i] = x})

\* for idx_path in moving_indexes: if check_date in str(idx_path):
\*     group.append(idx_path); moving_indexes.pop(moving_indexes.index(idx_path))
\* The list iterator holds a position i into the list the body shrinks.
RECURSIVE GroupMoving(_, _, _, _)
GroupMoving(l, i, check_date, group) ==
    IF i > Len(l) THEN [moving |-> l, group |-> group]
    ELSE IF StrContains(l[i], check_date)
         THEN GroupMoving(PopAt(l, IndexOf(l, l[i])), i + 1, check_date,
                          Append(group, l[i]))
         ELSE GroupMoving(l, i + 1, check_date, group)

\* for idx_path in current_indexes: if check_date in str(idx_path): ...
RECURSIVE SelectDate(_, _)
SelectDate(l, check_date) ==
    IF l = <<>> THEN <<>>
    ELSE (IF StrContains(l[1], check_date) THEN <<l[1]>> ELSE <<>>)
         \o SelectDate(Tail(l), check_date)

\* moving_groups[check_date] = group
DictSet(d, key, val) ==
    IF \E j \in 1..Len(d) : d[j].date = key
    THEN [j \in 1..Len(d) |-> IF d[j].date = key THEN [date |-> key, group |-> val] ELSE d[j]]
    ELSE Append(d, [date |-> key, group |-> val])

\* while len(moving_indexes): ... (lines 61-77). index_path is popped from
\* the end; re.search(...).group() raises when the path has no date.
RECURSIVE GroupByDate(_, _, _, _)
GroupByDate(moving, current, groups, stale) ==
    IF moving = <<>> THEN [ok |-> TRUE, groups |-> groups, stale |-> stale]
    ELSE LET index_path == moving[Len(moving)]
             rest       == SubSeq(moving, 1, Len(moving) - 1)
         IN  IF ReSearchIsNone(index_path)
             THEN [ok |-> FALSE, groups |-> groups, stale |-> stale]
             ELSE LET check_date == ReSearchGroup(index_path)
                      g   == GroupMoving(rest, 1, check_date, <<index_path>>)
                      cur_ == SelectDate(current, check_date)
                  IN  GroupByDate(g.moving, current,
                                  DictSet(groups, check_date, g.group \o cur_),
                                  stale \o cur_)

\* faiss.read_index(path, faiss.IO_FLAG_MMAP) succeeds: an index file whose
\* on-disk lists, if it has them, are there.
CanRead(f, path) ==
    /\ path \in DOMAIN f
    /\ f[path].kind = "index"
    /\ f[path].data # <<>> => f[path].data \in DOMAIN f

\* The entries of the inverted lists of the sources, in source order.
RECURSIVE MergedIds(_, _)
MergedIds(f, paths) ==
    IF paths = <<>> THEN <<>>
    ELSE f[paths[1]].ids \o MergedIds(f, Tail(paths))

\* merge_from counting the lists of the first source only.
SumLens_first(f, paths) ==
    IF paths = <<>> THEN 0 ELSE Len(f[paths[1]].ids)

\* ntotal = invlists.merge_from(...): the number of entries merged.
RECURSIVE SumLens(_, _)
SumLens(f, paths) ==
    IF paths = <<>> THEN 0
    ELSE Len(f[paths[1]].ids) + SumLens(f, Tail(paths))

\* load_base_idx looking at ntotal only.
BaseIsEmpty_ntotal_only(f) ==
    /\ CanRead(f, BasePath)
    /\ f[BasePath].ntotal = 0

\* load_base_idx succeeds: the base index is there, trained and empty.
BaseIsEmpty(f) ==
    /\ CanRead(f, BasePath)
    /\ f[BasePath].trained
    /\ f[BasePath].ntotal = 0

\* for tmp_idx in paths: os.remove(str(tmp_idx));
\*     os.remove(str(tmp_idx).replace('.index', '.ivfdata'))
\* os.remove raises when the file is not there; what was removed stays removed.
RECURSIVE RemovePairs(_, _)
RemovePairs(f, paths) ==
    IF paths = <<>> THEN [ok |-> TRUE, files |-> f]
    ELSE IF paths[1] \notin DOMAIN f THEN [ok |-> FALSE, files |-> f]
    ELSE IF ivfdata_of(paths[1]) \notin DOMAIN RemoveFile(f, paths[1])
         THEN [ok |-> FALSE, files |-> RemoveFile(f, paths[1])]
         ELSE RemovePairs(RemoveFile(RemoveFile(f, paths[1]), ivfdata_of(paths[1])),
                          Tail(paths))

\* The builder call ends: with a value, or with an exception.
BuildEnd(kind, val, why) ==
    /\ bret' = [kind |-> kind, val |-> val, why |-> why, args |-> bargs]
    /\ bpc' = "idle"
    /\ bargs' = NoBArgs
    /\ current_indexes' = <<>>
    /\ moving_indexes' = <<>>
    /\ moving_groups' = <<>>
    /\ stale_files' = <<>>
    /\ optional_del' = <<>>
    /\ gi' = 0
    /\ n_vect' = 0
    /\ margs' = NoMArgs

\* PathsClear looking at the .index path only.
PathsClear_index_only(f, path) == path \notin DOMAIN f

\* The output paths of a date group are clear (lines 80-84).
PathsClear(f, path) == path \notin DOMAIN f /\ ivfdata_of(path) \notin DOMAIN f

\* zip_indexes, lines 43-56: make to_dir if asked to, gather the paths.
zip_call(mv_dir, to_dir, partial_filename, mkdir) ==
    /\ bpc = "idle"
    /\ nbcalls < MaxBuildCalls
    /\ UNCHANGED not_build
    /\ UNCHANGED catalogue_vars
    /\ nbcalls' = nbcalls + 1
    /\ files0' = files
    /\ dirs' = IF ~isdir(to_dir) /\ mkdir THEN dirs \cup {to_dir} ELSE dirs
    /\ UNCHANGED files
    /\ LET a == [NoBArgs EXCEPT !.op = "zip_indexes", !.mv_dir = mv_dir,
                                !.to_dir = to_dir, !.mkdir = mkdir,
                                !.partial_filename = partial_filename]
           moving == find_indexes(files, mv_dir)
       IN  IF Len(moving) = 0
           THEN /\ bret' = [kind |-> "returned", val |-> 0, why |-> "none", args |-> a]
                /\ UNCHANGED << bpc, bargs, current_indexes, moving_indexes,
                                moving_groups, stale_files, optional_del, gi,
                                n_vect, margs >>
           ELSE /\ bargs' = a
                /\ current_indexes' = find_indexes(files, to_dir)
                /\ moving_indexes' = moving
                /\ optional_del' = moving
                /\ stale_files' = <<>>
                /\ moving_groups' = <<>>
                /\ bpc' = "z_group"
                /\ UNCHANGED << gi, n_vect, margs, bret >>

\* zip_indexes, lines 58-77: group the paths by date.
zip_group ==
    /\ bpc = "z_group"
    /\ UNCHANGED not_build
    /\ UNCHANGED catalogue_vars
    /\ UNCHANGED << files, dirs, files0, nbcalls >>
    /\ LET g == GroupByDate(moving_indexes, current_indexes, <<>>, <<>>)
       IN  IF ~g.ok
           THEN BuildEnd("raised", 0, "AttributeError")
           ELSE /\ moving_groups' = g.groups
                /\ stale_files' = g.stale
                /\ moving_indexes' = <<>>
                /\ bpc' = "z_assert"
                /\ UNCHANGED << bargs, current_indexes, optional_del, gi,
                                n_vect, margs, bret >>

\* zip_indexes, lines 79-84: assert all paths are clear first.
zip_assert ==
    /\ bpc = "z_assert"
    /\ UNCHANGED not_build
    /\ UNCHANGED catalogue_vars
    /\ UNCHANGED << files, dirs, files0, nbcalls >>
    /\ IF \E j \in 1..Len(moving_groups) :
             ~PathsClear(files, new_idx_path(bargs.to_dir, moving_groups[j].date,
                                             bargs.partial_filename))
       THEN BuildEnd("raised", 0, "AssertionError")
       ELSE /\ bpc' = "z_merge"
            /\ gi' = 0
            /\ n_vect' = 0
            /\ UNCHANGED << bargs, current_indexes, moving_indexes,
                            moving_groups, stale_files, optional_del, margs, bret >>

\* zip_indexes, lines 86-94: the next group goes to merge_IVFs; after the
\* last one, on to the removal of the stale files.
zip_merge ==
    /\ bpc = "z_merge"
    /\ UNCHANGED not_build
    /\ UNCHANGED catalogue_vars
    /\ UNCHANGED << files, dirs, files0, nbcalls, bargs, current_indexes,
                    moving_indexes, moving_groups, stale_files, optional_del,
                    n_vect, bret >>
    /\ IF gi < Len(moving_groups)
       THEN LET new == new_idx_path(bargs.to_dir, moving_groups[gi + 1].date,
                                    bargs.partial_filename)
            IN  /\ margs' = [index_path |-> new, ivfdata_path |-> ivfdata_of(new),
                             ivfindex_paths |-> moving_groups[gi + 1].group,
                             ntotal |-> 0, back |-> "z_merge"]
                /\ gi' = gi + 1
                /\ bpc' = "m_read"
       ELSE /\ bpc' = "z_stale"
            /\ UNCHANGED << gi, margs >>

\* list(self.subindex_path_totals.keys())
CatalogueKeys(cat) == [j \in 1..Len(cat) |-> cat[j].path]

\* merge_IVFs called from outside, lines 201-218: with no sources given it
\* merges the sub-indexes of the catalogue. (Calls with nothing to merge
\* are left out.)
merge_call(index_path, ivfdata_path, ivfindex_paths) ==
    /\ bpc = "idle"
    /\ nbcalls < MaxBuildCalls
    /\ ivfindex_paths # <<>> \/ subindex_path_totals # <<>>
    /\ UNCHANGED not_build
    /\ UNCHANGED catalogue_vars
    /\ nbcalls' = nbcalls + 1
    /\ files0' = files
    /\ bargs' = [NoBArgs EXCEPT !.op = "merge_IVFs", !.index_path = index_path,
                                !.ivfdata_path = ivfdata_path,
                                !.ivfindex_paths = ivfindex_paths]
    /\ margs' = [index_path |-> index_path, ivfdata_path |-> ivfdata_path,
                 ivfindex_paths |-> IF ivfindex_paths = <<>>
                                    THEN CatalogueKeys(subindex_path_totals)
                                    ELSE ivfindex_paths,
                 ntotal |-> 0, back |-> "idle"]
    /\ bpc' = "m_read"
    /\ UNCHANGED << files, dirs, current_indexes, moving_indexes, moving_groups,
                    stale_files, optional_del, gi, n_vect, bret >>

\* merge_IVFs, lines 217-226: read the sources, load the base index.
merge_read ==
    /\ bpc = "m_read"
    /\ UNCHANGED not_build
    /\ UNCHANGED catalogue_vars
    /\ UNCHANGED << files, dirs, files0, nbcalls >>
    /\ IF \E j \in 1..Len(margs.ivfindex_paths) : ~CanRead(files, margs.ivfindex_paths[j])
       THEN BuildEnd("raised", 0, "RuntimeError")
       ELSE IF ~CanRead(files, BasePath)
       THEN BuildEnd("raised", 0, "RuntimeError")
       ELSE IF ~BaseIsEmpty(files)
       THEN BuildEnd("raised", 0, "Exception")
       ELSE /\ bpc' = "m_ivfdata"
            /\ UNCHANGED << bargs, current_indexes, moving_indexes, moving_groups,
                            stale_files, optional_del, gi, n_vect, margs, bret >>

\* merge_IVFs, lines 227-235: OnDiskInvertedLists opens the .ivfdata file for
\* writing and merge_from fills it with the lists of the sources.
\* The file cannot be made when its directory is missing.
merge_ivfdata ==
    /\ bpc = "m_ivfdata"
    /\ UNCHANGED not_build
    /\ UNCHANGED catalogue_vars
    /\ UNCHANGED << dirs, files0, nbcalls >>
    /\ IF ~CanCreate(margs.ivfdata_path)
       THEN /\ UNCHANGED files
            /\ BuildEnd("raised", 0, "RuntimeError")
       ELSE /\ files' = WriteFile(files, margs.ivfdata_path,
                                  DataFile(MergedIds(files, margs.ivfindex_paths)))
            /\ margs' = [margs EXCEPT !.ntotal = SumLens(files, margs.ivfindex_paths)]
            /\ bpc' = "m_write"
            /\ UNCHANGED << bargs, current_indexes, moving_indexes, moving_groups,
                            stale_files, optional_del, gi, n_vect, bret >>

\* merge_IVFs, lines 236-239: index.ntotal = ntotal; write_index; return.
\* write_index raises when the file cannot be made. A call of merge_IVFs
\* from zip_indexes or mv_index_and_ivfdata returns there; a call from
\* outside ends.
merge_write ==
    /\ bpc = "m_write"
    /\ UNCHANGED not_build
    /\ UNCHANGED catalogue_vars
    /\ UNCHANGED << dirs, files0, nbcalls >>
    /\ IF ~CanCreate(margs.index_path)
       THEN /\ UNCHANGED files
            /\ BuildEnd("raised", 0, "RuntimeError")
       ELSE /\ files' = WriteFile(files, margs.index_path,
                                  [IndexFile(files[margs.ivfdata_path].ids,
                                             margs.ivfdata_path)
                                      EXCEPT !.ntotal = margs.ntotal])
            /\ IF margs.back = "idle"
               THEN BuildEnd("returned", margs.ntotal, "none")
               ELSE /\ n_vect' = n_vect + margs.ntotal
                    /\ bpc' = margs.back
                    /\ margs' = NoMArgs
                    /\ UNCHANGED << bargs, current_indexes, moving_indexes,
                                    moving_groups, stale_files, optional_del, gi,
                                    bret >>

\* zip_indexes, lines 104-107: delete the files that were zipped into.
zip_stale ==
    /\ bpc = "z_stale"
    /\ UNCHANGED not_build
    /\ UNCHANGED catalogue_vars
    /\ UNCHANGED << dirs, files0, nbcalls >>
    /\ LET r == RemovePairs(files, stale_files)
       IN  /\ files' = r.files
           /\ IF ~r.ok
              THEN BuildEnd("raised", 0, "FileNotFoundError")
              ELSE /\ bpc' = "z_prompt"
                   /\ UNCHANGED << bargs, current_indexes, moving_indexes,
                                   moving_groups, stale_files, optional_del, gi,
                                   n_vect, margs, bret >>

\* zip_indexes, lines 109-115: delete the daily indexes when the answer to
\* the prompt has a 'y' in it; return 1.
zip_prompt(yes) ==
    /\ bpc = "z_prompt"
    /\ UNCHANGED not_build
    /\ UNCHANGED catalogue_vars
    /\ UNCHANGED << dirs, files0, nbcalls >>
    /\ LET r == IF yes THEN RemovePairs(files, optional_del)
                ELSE [ok |-> TRUE, files |-> files]
       IN  /\ files' = r.files
           /\ IF ~r.ok
              THEN BuildEnd("raised", 0, "FileNotFoundError")
              ELSE BuildEnd("returned", 1, "none")

\* mv_index_and_ivfdata, lines 167-185 and 196-199: the asserts, the mkdir,
\* and the call of merge_IVFs with the one source, or the message that the
\* index could not be moved (the function then returns None).
mv_call(index_path, ivfdata_path, to_dir, mkdir, only_cp) ==
    /\ bpc = "idle"
    /\ nbcalls < MaxBuildCalls
    /\ UNCHANGED not_build
    /\ UNCHANGED catalogue_vars
    /\ nbcalls' = nbcalls + 1
    /\ files0' = files
    /\ UNCHANGED << files, current_indexes, moving_indexes, moving_groups,
                    stale_files, optional_del, gi, n_vect >>
    /\ LET a == [NoBArgs EXCEPT !.op = "mv_index_and_ivfdata",
                                !.index_path = index_path,
                                !.ivfdata_path = ivfdata_path,
                                !.to_dir = to_dir, !.mkdir = mkdir,
                                !.only_cp = only_cp]
           new_index_path == join(to_dir, LastSegment(index_path))
           new_ivfdata_path == join(to_dir, LastSegment(ivfdata_path))
       IN  IF ~isfile(index_path) \/ ~isfile(ivfdata_path)
           THEN /\ bret' = [kind |-> "raised", val |-> 0, why |-> "AssertionError",
                            args |-> a]
                /\ UNCHANGED << dirs, bpc, bargs, margs >>
           ELSE /\ dirs' = IF ~isdir(to_dir) /\ mkdir THEN dirs \cup {to_dir} ELSE dirs
                /\ IF ~(to_dir \in dirs')
                   THEN /\ bret' = [kind |-> "returned", val |-> -1, why |-> "None",
                                    args |-> a]
                        /\ UNCHANGED << bpc, bargs, margs >>
                   ELSE IF isfile(new_index_path) \/ isfile(new_ivfdata_path)
                   THEN /\ bret' = [kind |-> "raised", val |-> 0,
                                    why |-> "AssertionError", args |-> a]
                        /\ UNCHANGED << bpc, bargs, margs >>
                   ELSE /\ bargs' = a
                        /\ margs' = [index_path |-> new_index_path,
                                     ivfdata_path |-> new_ivfdata_path,
                                     ivfindex_paths |-> <<index_path>>,
                                     ntotal |-> 0, back |-> "mv_done"]
                        /\ bpc' = "m_read"
                        /\ UNCHANGED bret

\* mv_index_and_ivfdata removing the .index and leaving its .ivfdata.
mv_removes_index_only(a) == <<a.index_path>>

\* What mv_index_and_ivfdata removes once the copy is made (line 191).
mv_removes(a) == <<a.ivfdata_path, a.index_path>>

RECURSIVE RemoveEach(_, _)
RemoveEach(f, paths) ==
    IF paths = <<>> THEN f ELSE RemoveEach(RemoveFile(f, paths[1]), Tail(paths))

\* mv_index_and_ivfdata, lines 187-194: remove the originals unless only_cp.
mv_done ==
    /\ bpc = "mv_done"
    /\ UNCHANGED not_build
    /\ UNCHANGED catalogue_vars
    /\ UNCHANGED << dirs, files0, nbcalls >>
    /\ files' = IF bargs.only_cp THEN files ELSE RemoveEach(files, mv_removes(bargs))
    /\ BuildEnd("returned", n_vect, "none")

\* index_path_clear(index_path): the path ends in .index and holds no file.
index_path_clear(f, index_path) ==
    IF index_path \notin DOMAIN f /\ EndsWith(index_path, DotIndex) THEN TRUE
    ELSE IF index_path \in DOMAIN f /\ EndsWith(index_path, DotIndex) THEN FALSE
    ELSE IF ~EndsWith(index_path, DotIndex) THEN FALSE
    ELSE FALSE

\* self.subindex_path_totals[subindex_path] = index.ntotal
CatSet(cat, path, n) ==
    IF \E j \in 1..Len(cat) : cat[j].path = path
    THEN [j \in 1..Len(cat) |->
             IF cat[j].path = path THEN [path |-> path, ntotal |-> n] ELSE cat[j]]
    ELSE Append(cat, [path |-> path, ntotal |-> n])

\* A builder call that is over in one step gives back.
BuildGives(kind, val, why, a) ==
    /\ bret' = [kind |-> kind, val |-> val, why |-> why, args |-> a]
    /\ UNCHANGED << bpc, bargs, current_indexes, moving_indexes, moving_groups,
                    stale_files, optional_del, gi, n_vect, margs >>

\* generate_subindex, lines 241-247: when the path is clear, the vectors go
\* into a copy of the base index, the catalogue gets the path, the index is
\* written; when it is not, a message is printed. The function returns None.
generate_subindex(subindex_path, faiss_ids) ==
    /\ bpc = "idle"
    /\ nbcalls < MaxBuildCalls
    /\ UNCHANGED not_build
    /\ nbcalls' = nbcalls + 1
    /\ files0' = files
    /\ UNCHANGED << dirs, invlist_paths >>
    /\ LET a == [NoBArgs EXCEPT !.op = "generate_subindex",
                                !.index_path = subindex_path]
       IN  IF ~index_path_clear(files, subindex_path)
           THEN /\ BuildGives("returned", -1, "None", a)
                /\ UNCHANGED << files, subindex_path_totals >>
           ELSE IF ~CanRead(files, BasePath)
           THEN /\ BuildGives("raised", 0, "RuntimeError", a)
                /\ UNCHANGED << files, subindex_path_totals >>
           ELSE IF ~BaseIsEmpty(files)
           THEN /\ BuildGives("raised", 0, "Exception", a)
                /\ UNCHANGED << files, subindex_path_totals >>
           ELSE /\ subindex_path_totals' =
                      CatSet(subindex_path_totals, subindex_path, Len(faiss_ids))
                /\ IF ~CanCreate(subindex_path)
                   THEN /\ BuildGives("raised", 0, "RuntimeError", a)
                        /\ UNCHANGED files
                   ELSE /\ BuildGives("returned", -1, "None", a)
                        /\ files' = WriteFile(files, subindex_path,
                                              IndexFile(faiss_ids, <<>>))

(***************************************************************************)
(* DiskBuilderIVF                                                          *)
(***************************************************************************)

\* load_empty succeeds: the index at path_to_empty_index is trained and
\* has no vectors.
load_empty(f) ==
    /\ CanRead(f, BasePath)
    /\ f[BasePath].trained
    /\ f[BasePath].ntotal = 0

\* self.save_index(path): the index is written to the path, which fails
\* when the file cannot be made.
save_index(path) == CanCreate(path)

\* generate_invlist, lines 92-98: the vectors go into the empty index, the
\* path is appended to invlist_paths, the index is saved. Nothing looks at
\* what the path holds.
generate_invlist(invlist_path, faiss_ids) ==
    /\ bpc = "idle"
    /\ nbcalls < MaxBuildCalls
    /\ UNCHANGED not_build
    /\ nbcalls' = nbcalls + 1
    /\ files0' = files
    /\ UNCHANGED << dirs, subindex_path_totals >>
    /\ LET a == [NoBArgs EXCEPT !.op = "generate_invlist",
                                !.index_path = invlist_path]
       IN  IF ~CanRead(files, BasePath)
           THEN /\ BuildGives("raised", 0, "RuntimeError", a)
                /\ UNCHANGED << files, invlist_paths >>
           ELSE IF ~load_empty(files)
           THEN /\ BuildGives("raised", 0, "Exception", a)
                /\ UNCHANGED << files, invlist_paths >>
           ELSE /\ invlist_paths' = Append(invlist_paths, invlist_path)
                /\ IF ~save_index(invlist_path)
                   THEN /\ BuildGives("raised", 0, "RuntimeError", a)
                        /\ UNCHANGED files
                   ELSE /\ BuildGives("returned", -1, "None", a)
                        /\ files' = WriteFile(files, invlist_path,
                                              IndexFile(faiss_ids, <<>>))

\* build_disk_index, lines 107-129: read the inverted lists of every path of
\* invlist_paths, load the empty index, merge the lists into the on-disk
\* lists at merged_ivfs_path, set ntotal, save the index, return ntotal.
build_disk_index(merged_ivfs_path, merged_index_path) ==
    /\ bpc = "idle"
    /\ nbcalls < MaxBuildCalls
    /\ UNCHANGED not_build
    /\ UNCHANGED catalogue_vars
    /\ nbcalls' = nbcalls + 1
    /\ files0' = files
    /\ UNCHANGED dirs
    /\ LET a == [NoBArgs EXCEPT !.op = "build_disk_index",
                                !.index_path = merged_index_path,
                                !.ivfdata_path = merged_ivfs_path,
                                !.ivfindex_paths = invlist_paths]
           ntotal == SumLens(files, invlist_paths)
           merged == WriteFile(files, merged_ivfs_path,
                               DataFile(MergedIds(files, invlist_paths)))
       IN  IF \E j \in 1..Len(invlist_paths) : ~CanRead(files, invlist_paths[j])
           THEN /\ BuildGives("raised", 0, "RuntimeError", a)
                /\ UNCHANGED files
           ELSE IF ~CanRead(files, BasePath)
           THEN /\ BuildGives("raised", 0, "RuntimeError", a)
                /\ UNCHANGED files
           ELSE IF ~load_empty(files)
           THEN /\ BuildGives("raised", 0, "Exception", a)
                /\ UNCHANGED files
           ELSE IF ~CanCreate(merged_ivfs_path)
           THEN /\ BuildGives("raised", 0, "RuntimeError", a)
                /\ UNCHANGED files
           ELSE IF ~save_index(merged_index_path)
           THEN /\ BuildGives("raised", 0, "RuntimeError", a)
                /\ files' = merged
           ELSE /\ BuildGives("returned", ntotal, "none", a)
                /\ files' = WriteFile(merged, merged_index_path,
                                      [IndexFile(merged[merged_ivfs_path].ids,
                                                 merged_ivfs_path)
                                          EXCEPT !.ntotal = ntotal])

(***************************************************************************)
(* The query processors                                                    *)
(***************************************************************************)

\* A search result is a sequence of pairs <<score, id>>: the zip of
\* scores[0] and faiss_ids[0]. A score is a distance counted in hundredths.

DigitChars == <<"0", "1", "2", "3", "4", "5", "6", "7", "8", "9">>

\* str(n) of an integer
RECURSIVE NatStr(_)
NatStr(n) ==
    IF n < 10 THEN <<DigitChars[n + 1]>>
    ELSE NatStr(n \div 10) \o <<DigitChars[(n % 10) + 1]>>
IntStr(n) == IF n < 0 THEN <<"-">> \o NatStr(0 - n) ELSE NatStr(n)

\* str(x) of a float x = v/100: '0.01', '0.5', '9.0', '10.0'
FloatStr(v) ==
    NatStr(v \div 100) \o <<".">> \o
    (IF v % 10 = 0 THEN <<DigitChars[((v % 100) \div 10) + 1]>>
     ELSE <<DigitChars[((v % 100) \div 10) + 1], DigitChars[(v % 10) + 1]>>)

Max(a, b) == IF a >= b THEN a ELSE b

\* def min_diff_cutoff(diff_score, cutoff=0.01) -> str
min_diff_cutoff(diff_score) == FloatStr(Max(diff_score, 1))

\* docs[doc_id].append(hit), with docs[doc_id] = list() first for a new key
DocAppend(docs, doc_id, hit) ==
    IF \E j \in 1..Len(docs) : docs[j].doc_id = doc_id
    THEN [j \in 1..Len(docs) |->
             IF docs[j].doc_id = doc_id
             THEN [docs[j] EXCEPT !.hits = Append(docs[j].hits, hit)]
             ELSE docs[j]]
    ELSE Append(docs, [doc_id |-> doc_id, hits |-> <<hit>>])

\* aggregate_docs keeping the hits with faiss_id >= 0.
RECURSIVE CollectDocs_keep_zero(_, _)
CollectDocs_keep_zero(pairs, docs) ==
    IF pairs = <<>> THEN docs
    ELSE IF pairs[1][2] >= 0
         THEN CollectDocs_keep_zero(Tail(pairs),
                 DocAppend(docs, IntStr(pairs[1][2] \div 10000),
                           <<min_diff_cutoff(pairs[1][1]), IntStr(pairs[1][2])>>))
         ELSE CollectDocs_keep_zero(Tail(pairs), docs)

\* dt_sim aggregate_docs, lines 118-125: the hits with faiss_id > 0, by
\* document (doc_id = faiss_id // 10000), as (str(score), str(faiss_id)).
RECURSIVE CollectDocs(_, _)
CollectDocs(pairs, docs) ==
    IF pairs = <<>> THEN docs
    ELSE LET score == pairs[1][1]
             faiss_id == pairs[1][2]
         IN  IF faiss_id > 0
             THEN CollectDocs(Tail(pairs),
                     DocAppend(docs, IntStr(faiss_id \div 10000),
                               <<min_diff_cutoff(score), IntStr(faiss_id)>>))
             ELSE CollectDocs(Tail(pairs), docs)

\* A strict order of strings, and a stable sort of a list by a string key.
StrLT(a, b) == StrLE(a, b) /\ a # b

\* A list of tuples sorted on the string that is their first component; x
\* is put in after every element whose key is not greater (sorted() and
\* list.sort() are stable).
RECURSIVE InsertByKey(_, _)
InsertByKey(x, s) ==
    IF s = <<>> THEN <<x>>
    ELSE IF StrLT(x[1], s[1][1]) THEN <<x>> \o s
         ELSE <<s[1]>> \o InsertByKey(x, Tail(s))

RECURSIVE SortByKey(_)
SortByKey(s) ==
    IF s = <<>> THEN <<>>
    ELSE InsertByKey(s[Len(s)], SortByKey(SubSeq(s, 1, Len(s) - 1)))

\* sorted(payload, key=lambda doc_hit: doc_hit['score'])
SortByScore(recs) ==
    LET keyed == SortByKey([j \in 1..Len(recs) |-> <<recs[j].score, recs[j]>>])
    IN  [j \in 1..Len(keyed) |-> keyed[j][2]]

\* def sort_score_ids(sc_ids): sorts unless the list is sorted already
sort_score_ids(sc_ids) ==
    IF \A i \in 1..(Len(sc_ids) - 1) : StrLE(sc_ids[i][1], sc_ids[i + 1][1])
    THEN sc_ids
    ELSE SortByKey(sc_ids)

\* sorted([sc_id[0] for sc_id in score_ids]): what the hash of a document
\* is taken of.
SortedScores(score_ids) ==
    LET keyed == SortByKey([j \in 1..Len(score_ids) |-> <<score_ids[j][1]>>])
    IN  [j \in 1..Len(keyed) |-> keyed[j][1]]

\* aggregate_docs keeping every document, whatever its score list.
UniqueDocs_keep_all(docs, seen, doc_hits) ==
    [j \in 1..Len(docs) |->
        [doc_id |-> docs[j].doc_id, hits |-> sort_score_ids(docs[j].hits)]]

\* dt_sim aggregate_docs, lines 127-138: with require_unique_score, the
\* first document of every sorted score list; the hits of a document sorted.
RECURSIVE UniqueDocs(_, _, _)
UniqueDocs(docs, seen, doc_hits) ==
    IF docs = <<>> THEN doc_hits
    ELSE LET doc_score_hash == SortedScores(docs[1].hits)
         IN  IF doc_score_hash \notin seen
             THEN UniqueDocs(Tail(docs), seen \cup {doc_score_hash},
                     Append(doc_hits, [doc_id |-> docs[1].doc_id,
                                       hits |-> sort_score_ids(docs[1].hits)]))
             ELSE UniqueDocs(Tail(docs), seen, doc_hits)

AllDocs(docs) ==
    [j \in 1..Len(docs) |->
        [doc_id |-> docs[j].doc_id, hits |-> sort_score_ids(docs[j].hits)]]

aggregate_docs(pairs, require_unique_score) ==
    IF require_unique_score
    THEN UniqueDocs(CollectDocs(pairs, <<>>), {}, <<>>)
    ELSE AllDocs(CollectDocs(pairs, <<>>))

\* min(...) of a list of strings
RECURSIVE StrMin(_)
StrMin(l) ==
    IF Len(l) = 1 THEN l[1]
    ELSE LET m == StrMin(Tail(l))
         IN  IF StrLE(l[1], m) THEN l[1] ELSE m

\* dt_sim format_payload_docs, lines 142-164
format_payload_docs(doc_hits) ==
    SortByScore([j \in 1..Len(doc_hits) |->
                  [doc_id |-> doc_hits[j].doc_id,
                   id_score_tups |->
                      [i \in 1..Len(doc_hits[j].hits) |->
                          <<doc_hits[j].hits[i][2], doc_hits[j].hits[i][1]>>],
                   score |->
                      StrMin([i \in 1..Len(doc_hits[j].hits) |->
                                 doc_hits[j].hits[i][1]])]])

\* dt_sim format_payload_singles, lines 166-189
format_payload_singles(doc_hits) ==
    SortByScore([j \in 1..Len(doc_hits) |->
                  [doc_id |-> doc_hits[j].doc_id,
                   score |-> doc_hits[j].hits[1][1],
                   sentence_id |-> doc_hits[j].hits[1][2]]])

\* dt_sim query_corpus, lines 62-78, from the search result on
query_payload(pairs, k, rerank_by_doc) ==
    Take(IF rerank_by_doc
         THEN format_payload_docs(aggregate_docs(pairs, TRUE))
         ELSE format_payload_singles(aggregate_docs(pairs, TRUE)), k)

\* dt_sim_api aggregate_docs, lines 86-96: every hit, by document, as
\* (max(score, 0.1), faiss_id).
RECURSIVE api_aggregate_docs(_, _)
api_aggregate_docs(pairs, docs) ==
    IF pairs = <<>> THEN docs
    ELSE api_aggregate_docs(Tail(pairs),
            DocAppend(docs, IntStr(pairs[1][2] \div 10000),
                      <<Max(pairs[1][1], 10), pairs[1][2]>>))

\* int(s) of the string of an integer
RECURSIVE StrNat(_)
StrNat(s) ==
    IF s = <<>> THEN 0
    ELSE 10 * StrNat(SubSeq(s, 1, Len(s) - 1))
         + (CHOOSE d \in 0..9 : DigitChars[d + 1] = s[Len(s)])
StrInt(s) == IF s[1] = "-" THEN 0 - StrNat(Tail(s)) ELSE StrNat(s)

\* The hits of the documents with int(doc_id) > 0, one record per hit.
RECURSIVE ApiHits(_)
ApiHits(doc_hits) ==
    IF doc_hits = <<>> THEN <<>>
    ELSE (IF StrInt(doc_hits[1].doc_id) > 0
          THEN [i \in 1..Len(doc_hits[1].hits) |->
                   [score |-> FloatStr(doc_hits[1].hits[i][1]),
                    sentence_id |-> IntStr(doc_hits[1].hits[i][2])]]
          ELSE <<>>)
         \o ApiHits(Tail(doc_hits))

\* dt_sim_api format_payload, lines 111-119
api_format_payload(doc_hits) == SortByScore(ApiHits(doc_hits))

\* dt_sim_api query_corpus, lines 46-58, from the search result on
api_query_payload(pairs, k) ==
    Take(api_format_payload(api_aggregate_docs(pairs, <<>>)), k)

\* The search results handed in. One family has up to MaxHits hits, no id
\* twice, with the scores 0.0, 0.01, 9.0 and 10.0 and the ids -1 (the
\* sentinel of a k-NN search), 0, two sentences of document 1 and one of
\* document 2. The other has two sentences of document 1 and two of
\* document 2, in every order and with every score.
MaxHits == 3
MaxK == 2
HitScores == {0, 1, 900, 1000}
HitIds == {-1, 0, 10001, 10002, 20001}
TwoDocIds == {10001, 10002, 20001, 20002}

NoIdTwice(s) == \A i, j \in 1..Len(s) : i # j => s[i][2] # s[j][2]

TwoDocResults ==
    { s \in [1..Cardinality(TwoDocIds) -> HitScores \X TwoDocIds] : NoIdTwice(s) }

SearchResults ==
    { s \in UNION { [1..n -> HitScores \X HitIds] : n \in 0..MaxHits } :
         NoIdTwice(s) }
    \cup TwoDocResults

PayloadInit ==
    /\ sr \in SearchResults
    /\ qk \in 0..MaxK
    /\ payload = <<>>
    /\ pop = "none"

PayloadOff ==
    /\ sr = <<>>
    /\ qk = 0
    /\ payload = <<>>
    /\ pop = "none"

\* The rest of dt_sim query_corpus applied to the search result.
payload_docs ==
    /\ pop = "none"
    /\ payload' = query_payload(sr, qk, TRUE)
    /\ pop' = "docs"
    /\ UNCHANGED << sr, qk, query_vars, mgr_vars, deploy_vars, build_vars >>

payload_singles ==
    /\ pop = "none"
    /\ payload' = query_payload(sr, qk, FALSE)
    /\ pop' = "singles"
    /\ UNCHANGED << sr, qk, query_vars, mgr_vars, deploy_vars, build_vars >>

\* The rest of dt_sim_api query_corpus applied to the search result.
payload_api ==
    /\ pop = "none"
    /\ payload' = api_query_payload(sr, qk)
    /\ pop' = "api"
    /\ UNCHANGED << sr, qk, query_vars, mgr_vars, deploy_vars, build_vars >>

NoQArgs == [id |-> 0, query_str |-> "none", args |-> NoArgs,
            rerank_by_doc |-> TRUE, ok |-> TRUE, retry |-> FALSE]
NoQRet == [kind |-> "none", val |-> <<>>, args |-> NoQArgs]

QueryOff ==
    /\ qpc = "idle"
    /\ qargs = NoQArgs
    /\ q_cache = <<>>
    /\ n_queries = 0
    /\ qret = NoQRet

\* The query strings, and the vector the vectorizer makes of each.
QueryStrs == {"a", "b"}
make_vectors(query_str) == IF query_str = "a" THEN 1 ELSE 3

\* The arguments of the query_corpus calls.
QueryArgs ==
    UNION { { [id |-> 0, query_str |-> q, args |-> a, rerank_by_doc |-> r,
               ok |-> TRUE, retry |-> FALSE] :
                 a \in {x \in SearchArgs : x.q = make_vectors(q)},
                 r \in BOOLEAN } : q \in QueryStrs }

\* The cache key of a query_corpus call.
QueryKey(a) ==
    << a.query_str, a.args.k, a.args.radius, a.args.start, a.args.end,
       a.rerank_by_doc >>

QueryCacheSize == 1

\* The distances of the shards are whole units; scores count hundredths.
ToScores(val) == [j \in 1..Len(val) |-> <<100 * val[j][1], val[j][2]>>]

\* query_corpus, lines 34-60: a call with cached arguments is answered from
\* the cache; else the vectorizer is asked (make_vectors raises on an HTTP
\* status that is not 2xx: response.raise_for_status()), and with the
\* vector the search of the index handler is called. ok is the state of
\* the vectorizer service at the call.
query_corpus_call(t, qa, ok) ==
    /\ qpc = "idle"
    /\ Idle(t)
    /\ ncalls < MaxCalls
    /\ ncalls' = ncalls + 1
    /\ UNCHANGED << deploy_vars, build_vars, payload_vars >>
    /\ UNCHANGED << lock, shards, pipes, paths_to_shards, n_shards, results,
                    it, it_used, cur, n_results, DI, sent >>
    /\ LET a == [qa EXCEPT !.id = ncalls + 1, !.ok = ok,
                           !.retry = /\ qret.kind = "raised"
                                     /\ ~qret.args.ok
                                     /\ QueryKey(qret.args) = QueryKey(qa)
                                     /\ ok]
           c == [op |-> "search", id |-> ncalls + 1, args |-> qa.args,
                 path |-> <<>>, again |-> FALSE]
       IN  IF QueryKey(qa) \in CacheKeys(q_cache)
           THEN /\ qret' = [kind |-> "cached", args |-> a,
                            val |-> CacheValue(q_cache, QueryKey(qa))]
                /\ q_cache' = CacheTouch(q_cache, QueryKey(qa))
                /\ UNCHANGED << qpc, qargs, n_queries, pc, call, ret, search_cache >>
           ELSE IF ~ok
           THEN /\ qret' = [kind |-> "raised", args |-> a, val |-> <<>>]
                /\ UNCHANGED << qpc, qargs, q_cache, n_queries, pc, call, ret,
                                search_cache >>
           ELSE /\ qpc' = "search"
                /\ qargs' = a
                /\ UNCHANGED << q_cache, n_queries, qret >>
                /\ IF SearchKey(qa.args) \in CacheKeys(search_cache)
                   THEN /\ ret' = [ret EXCEPT ![t] =
                                     [kind |-> "cached", call |-> c,
                                      val |-> CacheValue(search_cache,
                                                         SearchKey(qa.args))]]
                        /\ search_cache' = CacheTouch(search_cache, SearchKey(qa.args))
                        /\ UNCHANGED << pc, call >>
                   ELSE /\ ret' = [ret EXCEPT ![t] = NoRet]
                        /\ call' = [call EXCEPT ![t] = c]
                        /\ pc' = [pc EXCEPT ![t] = "wait"]
                        /\ UNCHANGED search_cache

\* query_corpus, lines 62-78: the search has returned, the payload is made,
\* n_queries counts the query, the result is stored in the cache; an
\* exception of the search goes on to the caller.
query_corpus_done(t) ==
    /\ qpc = "search"
    /\ Idle(t)
    /\ UNCHANGED << mgr_vars, deploy_vars, build_vars, payload_vars >>
    /\ qpc' = "idle"
    /\ qargs' = NoQArgs
    /\ IF ret[t].kind = "raised"
       THEN /\ qret' = [kind |-> "raised", args |-> qargs, val |-> <<>>]
            /\ UNCHANGED << q_cache, n_queries >>
       ELSE LET similar_docs ==
                   query_payload(ToScores(ret[t].val), qargs.args.k,
                                 qargs.rerank_by_doc)
            IN  /\ qret' = [kind |-> "returned", args |-> qargs, val |-> similar_docs]
                /\ n_queries' = n_queries + 1
                /\ q_cache' = CachePut(q_cache, QueryKey(qargs), similar_docs,
                                       QueryCacheSize)

(***************************************************************************)
(* Specifications                                                          *)
(***************************************************************************)

vars == << mgr_vars, deploy_vars, build_vars, qp_vars >>

Step(t, paths) ==
    \/ \E a \in SearchArgs : search_call(t, a)
    \/ search_wait(t)
    \/ search_lock(t)
    \/ search_iter(t)
    \/ search_send(t)
    \/ run_poll(t)
    \/ run_recv(t)
    \/ search_empty(t)
    \/ search_get(t)
    \/ search_unlock(t)
    \/ \E p \in paths : add_shard_call(t, p)
    \/ add_shard_lock(t)
    \/ add_shard_check(t)
    \/ add_shard_append(t)
    \/ add_shard_load(t)
    \/ add_shard_unlock(t)

\* The shard manager called from the threads of the server.
Init == MgrInit /\ DeployOff /\ BuildOff /\ PayloadOff /\ QueryOff

Next == \E t \in Threads : Step(t, ShardPaths)

Spec == Init /\ [][Next]_vars

\* One caller: every call returns (or raises) before the next one begins.
SeqThread == "t1"

InitSeq == MgrInit /\ DeployInit /\ BuildOff /\ PayloadOff /\ QueryOff

NextSeq ==
    \/ Step(SeqThread, ShardPaths \cup {PathM})
    \/ \E c \in DeployClasses : \E p \in ShardPaths \cup {PathM} :
          deploy_add_shard(c, p)

SpecSeq == InitSeq /\ [][NextSeq]_vars

\* One caller on a shard directory that holds a file whose name ends in
\* .index.index, alone or next to the file with one suffix less.
MountDirs == { <<PathAA>>, <<PathA, PathAA>>, <<PathA, PathB>> }
MountPaths == {PathA, PathAA, PathB}

InitMount ==
    /\ \E dir \in MountDirs : MgrInitWith(dir)
    /\ DeployOff /\ BuildOff /\ PayloadOff /\ QueryOff

NextMount == Step(SeqThread, MountPaths)

SpecMount == InitMount /\ [][NextMount]_vars

\* The builder at work on a file system, one call after the other.
MvArgs == {MvA, MvD}

\* u: a directory that is not there.
DirU == <<"u">>

\* The outputs and the sources of the calls of merge_IVFs from outside.
MergeOutputs == {new_idx_path(DirT, D0102, Tag), new_idx_path(DirU, D0102, Tag)}
MergeSources == { <<>>, <<MvA>>, <<MvA, MvB, MvD>> }

\* The paths given to generate_subindex: a sub-index of mv_dir (there or
\* not), one more of the second date, a name without .index, a path in the
\* directory that is not there; and the ids of the vectors given with it.
MvE == join(DirM, D0102 \o <<"_", "b">> \o DotIndex)
MvNoSuffix == join(DirM, D0102 \o <<"_", "b">>)
GenPaths == {MvA, MvE, MvNoSuffix, new_idx_path(DirU, D0102, Tag)}
GenIds == <<20002, 20003>>

\* The paths given to generate_invlist.
InvlistPaths == {MvE, new_idx_path(DirU, D0102, Tag)}

InitBuild ==
    MgrInitWith(<<>>) /\ DeployOff /\ BuildInit /\ PayloadOff /\ QueryOff

NextBuild ==
    \/ \E mkdir \in BOOLEAN : zip_call(DirM, DirT, Tag, mkdir)
    \/ zip_group
    \/ zip_assert
    \/ zip_merge
    \/ merge_read
    \/ merge_ivfdata
    \/ merge_write
    \/ zip_stale
    \/ \E yes \in BOOLEAN : zip_prompt(yes)
    \/ \E index_path \in MvArgs : \E to_dir \in {DirT, DirM} :
       \E mkdir \in BOOLEAN : \E only_cp \in BOOLEAN :
          mv_call(index_path, ivfdata_of(index_path), to_dir, mkdir, only_cp)
    \/ mv_done
    \/ \E index_path \in MergeOutputs : \E ivfindex_paths \in MergeSources :
          merge_call(index_path, ivfdata_of(new_idx_path(DirT, D0102, Tag)),
                     ivfindex_paths)
    \/ \E subindex_path \in GenPaths : generate_subindex(subindex_path, GenIds)
    \/ \E invlist_path \in InvlistPaths : generate_invlist(invlist_path, GenIds)
    \/ \E merged_index_path \in MergeOutputs :
          build_disk_index(ivfdata_of(new_idx_path(DirT, D0102, Tag)),
                           merged_index_path)

SpecBuild == InitBuild /\ [][NextBuild]_vars

\* The query processors at work on a search result.
InitPayload ==
    MgrInitWith(<<>>) /\ DeployOff /\ BuildOff /\ PayloadInit /\ QueryOff

NextPayload == payload_docs \/ payload_singles \/ payload_api

SpecPayload == InitPayload /\ [][NextPayload]_vars

\* The query processor over a RangeShards, one caller. The shard directory
\* holds dated shards, or a dated shard and one without a date.
QueryDirs == InitialDirs \cup { <<PathA, PathX>> }

InitQuery ==
    /\ \E dir \in QueryDirs : MgrInitWith(dir)
    /\ DeployOff /\ BuildOff /\ PayloadOff /\ QueryOff

NextQuery ==
    \/ \E qa \in QueryArgs : \E ok \in BOOLEAN :
          query_corpus_call(SeqThread, qa, ok)
    \/ search_wait(SeqThread)
    \/ search_lock(SeqThread)
    \/ search_iter(SeqThread)
    \/ search_send(SeqThread)
    \/ run_poll(SeqThread)
    \/ run_recv(SeqThread)
    \/ search_empty(SeqThread)
    \/ search_get(SeqThread)
    \/ search_unlock(SeqThread)
    \/ query_corpus_done(SeqThread)

SpecQuery == InitQuery /\ [][NextQuery]_vars

\* zip_indexes alone, on directories that also hold a sub-index without a
\* date or with two dates in its name.
ZipMvSets == { {MvU}, {MvA, MvU}, {Mv2}, {MvD, Mv2}, {MvA, MvD}, {MvA, MvB, MvC} }
ZipToStates == {"empty", "stale"}

ZipInit ==
    /\ \E mv \in ZipMvSets : \E to \in ZipToStates :
          files = WriteFile(ToFiles(WithPairs(EmptyFS, mv), to), BasePath,
                            IndexFile(<<>>, <<>>))
    /\ dirs = {DirM, DirT}
    /\ files0 = files
    /\ BuildLocals0

InitZip ==
    MgrInitWith(<<>>) /\ DeployOff /\ ZipInit /\ PayloadOff /\ QueryOff

NextZip ==
    \/ \E mkdir \in BOOLEAN : zip_call(DirM, DirT, Tag, mkdir)
    \/ zip_group
    \/ zip_assert
    \/ zip_merge
    \/ merge_read
    \/ merge_ivfdata
    \/ merge_write
    \/ zip_stale
    \/ \E yes \in BOOLEAN : zip_prompt(yes)

SpecZip == InitZip /\ [][NextZip]_vars

\* The searches of the threads of the server, on dated shards. The threads
\* are scheduled by the operating system: a call that has begun and can take
\* its next step takes it in the end.
SearchSteps(t) ==
    \/ \E a \in SearchArgs : search_call(t, a)
    \/ search_wait(t)
    \/ search_lock(t)
    \/ search_iter(t)
    \/ search_send(t)
    \/ run_poll(t)
    \/ run_recv(t)
    \/ search_empty(t)
    \/ search_get(t)
    \/ search_unlock(t)

Running(t) ==
    \/ search_wait(t)
    \/ search_lock(t)
    \/ search_iter(t)
    \/ search_send(t)
    \/ run_poll(t)
    \/ run_recv(t)
    \/ search_empty(t)
    \/ search_get(t)
    \/ search_unlock(t)

NextLive == \E t \in Threads : SearchSteps(t)

SpecLive ==
    /\ Init
    /\ [][NextLive]_vars
    /\ \A t \in Threads : WF_vars(Running(t))

(***************************************************************************)
(* Properties of the shard manager                                         *)
(***************************************************************************)

\* A search call is between  self.lock = True  and  self.lock = False.
HoldsLock(t) ==
    /\ call[t].op = "search"
    /\ pc[t] \in {"iter", "send", "poll", "recv", "empty", "get", "unlock"}

\* An add_shard call is between  self.lock = True  and  self.lock = False.
Mounting(t) ==
    /\ call[t].op = "add_shard"
    /\ pc[t] \in {"a_check", "a_append", "a_load", "a_warn", "a_unlock"}

\* C1: searches are serialized. At any time at most one search call is
\* between setting the lock and releasing it.
C1_QueriesSerialized ==
    Cardinality({t \in Threads : HoldsLock(t)}) <= 1

\* C2: add_shard waits for the search in flight. While a search call holds
\* the lock no step changes the shard map, and no add_shard call sets the
\* lock to False.
C2_AddShardWaitsForSearch ==
    [][ (\E s \in Threads : HoldsLock(s))
          => /\ shards' = shards
             /\ \A t \in Threads : Mounting(t) => ~(lock /\ ~lock' /\ pc'[t] = "idle")
      ]_vars

\* C3: a search that fails after it took the lock releases it and leaves
\* nothing in the results queue. Once a search call has raised and no call
\* is running, the lock is False and the queue is empty.
C3_FailedSearchCleansUp ==
    (/\ \A t \in Threads : Idle(t)
     /\ \E t \in Threads : ret[t].kind = "raised" /\ ret[t].call.op = "search")
    => (lock = FALSE /\ results = <<>>)

\* The mounted shards whose name holds a date d with start <= d <= end.
ShardsInWindow(start, end) ==
    { j \in 1..Len(shards) :
        /\ ~ReSearchIsNone(shards[j].name)
        /\ StrLE(start, ReSearchGroup(shards[j].name))
        /\ StrLE(ReSearchGroup(shards[j].name), end) }

\* The vector ids stored in those shards.
IdsInWindow(start, end) ==
    UNION { { ShardData(shards[j].path)[i].id : i \in 1..Len(ShardData(shards[j].path)) } :
            j \in ShardsInWindow(start, end) }

\* C4: search dispatches to a mounted shard exactly when the date in the
\* shard's name lies in [start, end], both ends included: of the shards the
\* loop has passed, the ones sent the query are the ones in the window; the
\* loop passes every mounted shard before results are collected; and every
\* id the call returns is stored in a shard in the window.
C4_DispatchIffInWindow ==
    \A t \in Threads :
       /\ HoldsLock(t) =>
            /\ \A j \in 1..it[t] :
                  \/ j = it[t] /\ pc[t] = "send"
                  \/ j \in sent[t]
                       <=> j \in ShardsInWindow(call[t].args.start, call[t].args.end)
            /\ pc[t] \in {"empty", "get", "unlock"} => it[t] = Len(shards)
       /\ ret[t].kind = "computed" =>
            \A j \in 1..Len(ret[t].val) :
               ret[t].val[j][2] \in
                  IdsInWindow(ret[t].call.args.start, ret[t].call.args.end)

\* C4 witness: with both dated shards mounted, a search for the one day
\* 2020-01-02 has returned the hit of the second shard alone.
C4_Witness ==
    /\ Len(shards) >= 2
    /\ ret[SeqThread].kind = "computed"
    /\ ret[SeqThread].call.args.start = D0102
    /\ ret[SeqThread].call.args.end = D0102
    /\ ret[SeqThread].val = << <<1, 20001>> >>

\* C5: two concurrent add_shard calls for one path not yet online. When both
\* have returned, one of them has installed the shard and the other has
\* warned, and the path is listed once in paths_to_shards.
C5_ConcurrentAddOnce ==
    \A t, u \in Threads :
       (/\ t # u
        /\ ret[t].call.op = "add_shard" /\ ret[u].call.op = "add_shard"
        /\ ret[t].call.path = ret[u].call.path
        /\ ret[t].kind = "added"
        /\ ret[u].kind \in {"added", "warned"})
       => /\ ret[u].kind = "warned"
          /\ Cardinality({ j \in 1..Len(paths_to_shards) :
                             paths_to_shards[j] = ret[t].call.path }) = 1

\* C6: add_shard(p) directly after add_shard(p) changes nothing. No step of
\* a RangeShards.add_shard call that repeats the caller's previous call
\* changes paths_to_shards or the shard map, and a DeployShards.add_shard
\* call with the path of the previous call on that object leaves its
\* paths_to_shards and its index as they were.
C6_AddShardIdempotent ==
    [][ /\ \A t \in Threads :
              (call[t].op = "add_shard" /\ call[t].again)
              => (paths_to_shards' = paths_to_shards /\ shards' = shards)
        /\ \A c \in DeployClasses :
              (/\ ncalls' = ncalls + 1 /\ pc' = pc /\ ret' = ret
               /\ deploy_last[c] # <<>>
               /\ deploy_last'[c] = deploy_last[c])
              => (deploy_paths'[c] = deploy_paths[c] /\ deploy_index'[c] = deploy_index[c])
      ]_vars

\* C6 witness: add_shard(x.index) on a RangeShards that did not hold it has
\* installed the shard, and the same call made again has returned with the
\* warning.
C6_Witness ==
    /\ ret[SeqThread].kind = "warned"
    /\ ret[SeqThread].call.again
    /\ ret[SeqThread].call.path = PathX
    /\ paths_to_shards[Len(paths_to_shards)] = PathX
    /\ shards[Len(shards)].path = PathX

\* What the body of search gives for the arguments a when it runs alone on
\* the shards as they are now.
RECURSIVE FreshDI(_, _)
FreshDI(sh, a) ==
    IF sh = <<>> THEN <<>>
    ELSE (IF InWindow(a.start, ReSearchGroup(sh[1].name), a.end)
          THEN Take(neighborhood(sh[1].path, a.q, a.radius), a.k)
          ELSE <<>>) \o FreshDI(Tail(sh), a)

\* The body of search would return now: the lock is free, the queue is
\* empty and every mounted shard has a date.
BodyReturns ==
    /\ lock = FALSE
    /\ results = <<>>
    /\ \A j \in 1..Len(shards) : ~ReSearchIsNone(shards[j].name)

\* C7: an answer from the memoization cache is the answer the body of the
\* call would give at that moment. Right after a call was answered from the
\* cache, the value it got is the value search computes on the shards
\* mounted now.
C7_CachedEqualsFresh ==
    \A t \in Threads :
       (Idle(t) /\ ret[t].kind = "cached" /\ BodyReturns)
       => ret[t].val = joint_sort(FreshDI(shards, ret[t].call.args))


(***************************************************************************)
(* Properties of the builder                                               *)
(***************************************************************************)

Range(l) == {l[i] : i \in 1..Len(l)}
Count(l, x) == Cardinality({i \in 1..Len(l) : l[i] = x})

\* The sub-indexes of a date that zip_indexes found in mv_dir when the call
\* began, and the dates of all the sub-indexes it found.
MovingOfDate(a, d) ==
    {x \in IndexFilesIn(files0, a.mv_dir) : StrContains(x, d)}
MovingDates(a) ==
    {ReSearchGroup(x) : x \in {y \in IndexFilesIn(files0, a.mv_dir) :
                                   ~ReSearchIsNone(y)}}

GroupsOf(d) == {j \in 1..Len(moving_groups) : moving_groups[j].date = d}

\* The groups of zip_indexes are made.
Grouped == bargs.op = "zip_indexes" /\ bpc # "z_group"

\* C8: zip_indexes puts each sub-index found in mv_dir into the merge group
\* of its own date exactly once: once the groups are made, every date found
\* has one group, the group holds every sub-index of the date, and no group
\* holds a file twice; and when the call has returned 1, the file written
\* for a date holds the vectors of all the sub-indexes of the date.
C8_EachFileGroupedOnce ==
    /\ Grouped =>
          /\ \A d \in MovingDates(bargs) :
                /\ Cardinality(GroupsOf(d)) = 1
                /\ \A j \in GroupsOf(d) : \A x \in MovingOfDate(bargs, d) :
                      Count(moving_groups[j].group, x) = 1
          /\ \A j \in 1..Len(moving_groups) : \A x \in Range(moving_groups[j].group) :
                Count(moving_groups[j].group, x) = 1
    /\ (bpc = "idle" /\ bret.args.op = "zip_indexes" /\ bret.kind = "returned"
        /\ bret.val = 1) =>
          \A d \in MovingDates(bret.args) :
             LET new == new_idx_path(bret.args.to_dir, d, bret.args.partial_filename)
             IN  /\ new \in DOMAIN files
                 /\ \A x \in MovingOfDate(bret.args, d) :
                       Range(files0[x].ids) \subseteq Range(files[new].ids)

\* An output path of the zip_indexes call was taken when the call began.
Occupied(a) ==
    \E d \in MovingDates(a) :
       LET new == new_idx_path(a.to_dir, d, a.partial_filename)
       IN  new \in DOMAIN files0 \/ ivfdata_of(new) \in DOMAIN files0

\* C9: when the .index or the .ivfdata path of the output of a date is
\* taken, zip_indexes writes and deletes nothing, and fails: all along such
\* a call the files are what they were when it began, and it ends raising.
C9_OccupiedOutputFailsBeforeWrite ==
    /\ (bargs.op = "zip_indexes" /\ files # files0) => ~Occupied(bargs)
    /\ (bpc = "idle" /\ bret.args.op = "zip_indexes"
          /\ ~(bret.kind = "raised" /\ files = files0)) => ~Occupied(bret.args)

\* C9 witness: a zip_indexes call whose output .ivfdata path alone was
\* taken (the .index path was free) has raised on the assert.
C9_Witness ==
    /\ bpc = "idle"
    /\ bret.args.op = "zip_indexes"
    /\ bret.kind = "raised"
    /\ bret.why = "AssertionError"
    /\ new_idx_path(DirT, D0101, Tag) \notin DOMAIN files0
    /\ ivfdata_of(new_idx_path(DirT, D0101, Tag)) \in DOMAIN files0
    /\ MovingOfDate(bret.args, D0101) # {}

\* The call of mv_index_and_ivfdata that ended last, and its paths.
MvEnded == bpc = "idle" /\ bret.args.op = "mv_index_and_ivfdata"
MvNewIndex == join(bret.args.to_dir, LastSegment(bret.args.index_path))
MvNewIvfdata == join(bret.args.to_dir, LastSegment(bret.args.ivfdata_path))
MvMoved == bret.kind = "returned" /\ bret.why = "none"

\* C10: mv_index_and_ivfdata never separates the .index from its .ivfdata.
\* After a move both files are in to_dir, the index there reads its lists
\* from the .ivfdata there, and neither file is at the source; after a copy
\* they are in to_dir and both source files are as they were; after a call
\* that raised or gave up for want of to_dir, every file is as it was.
C10_PairNeverSeparated ==
    MvEnded =>
       /\ (MvMoved /\ ~bret.args.only_cp) =>
             /\ {MvNewIndex, MvNewIvfdata} \subseteq DOMAIN files
             /\ files[MvNewIndex].data = MvNewIvfdata
             /\ bret.args.index_path \notin DOMAIN files
             /\ bret.args.ivfdata_path \notin DOMAIN files
       /\ (MvMoved /\ bret.args.only_cp) =>
             /\ {MvNewIndex, MvNewIvfdata} \subseteq DOMAIN files
             /\ files[MvNewIndex].data = MvNewIvfdata
             /\ \A x \in {bret.args.index_path, bret.args.ivfdata_path} :
                   x \in DOMAIN files /\ files[x] = files0[x]
       /\ ~MvMoved => files = files0

\* C10 witness: a move of m/2020-01-01_a.index with its .ivfdata into the
\* target directory has returned: the pair is there and not in m/.
C10_Witness ==
    /\ MvEnded
    /\ MvMoved
    /\ ~bret.args.only_cp
    /\ bret.args.index_path = MvA
    /\ MvNewIndex \in DOMAIN files
    /\ MvA \notin DOMAIN files

\* The call of merge_IVFs from outside that ended last raised.
MergeFailed ==
    bpc = "idle" /\ bret.args.op = "merge_IVFs" /\ bret.kind = "raised"

\* C11: a merge_IVFs call that fails leaves no output behind: when the call
\* has raised, and neither output path held a file before the call, neither
\* the output .index nor the output .ivfdata is there afterwards (so there
\* is no .ivfdata without its .index).
C11_FailedMergeLeavesNothing ==
    (/\ MergeFailed
     /\ bret.args.index_path \notin DOMAIN files0
     /\ bret.args.ivfdata_path \notin DOMAIN files0)
    => /\ bret.args.index_path \notin DOMAIN files
       /\ bret.args.ivfdata_path \notin DOMAIN files

\* The step is a whole call of generate_subindex.
GenStep ==
    /\ bpc = "idle"
    /\ bpc' = "idle"
    /\ nbcalls' = nbcalls + 1
    /\ bret'.args.op = "generate_subindex"

\* C12: generate_subindex on a path that holds a file, or that does not end
\* in .index, raises an error to its caller, writes no file and leaves the
\* catalogue subindex_path_totals as it was.
C12_BadSubindexPathFails ==
    [][ (/\ GenStep
         /\ \/ bret'.args.index_path \in DOMAIN files
            \/ ~EndsWith(bret'.args.index_path, DotIndex))
        => /\ bret'.kind = "raised"
           /\ files' = files
           /\ subindex_path_totals' = subindex_path_totals ]_vars

(***************************************************************************)
(* Properties of the query processors                                      *)
(***************************************************************************)

\* The number, in hundredths, that the string of a float stands for.
DotAt(s) == CHOOSE i \in 1..Len(s) : s[i] = "."
ParseFloat(s) ==
    LET frac == SubSeq(s, DotAt(s) + 1, Len(s))
    IN  100 * StrNat(SubSeq(s, 1, DotAt(s) - 1))
        + (IF Len(frac) = 1 THEN 10 * StrNat(frac) ELSE StrNat(frac))

\* C13: the list query_corpus returns is in ascending order of score and
\* has at most k records, with rerank_by_doc true and false.
C13_PayloadAscendingAtMostK ==
    pop \in {"docs", "singles"} =>
       /\ Len(payload) <= qk
       /\ \A i \in 1..(Len(payload) - 1) :
             ParseFloat(payload[i].score) <= ParseFloat(payload[i + 1].score)

\* C14: no payload of a query processor holds a vector id <= 0, and in a
\* record of the dt_sim processor every id listed has id div 10000 equal to
\* the doc_id of the record.
C14_NoNonPositiveIds ==
    /\ pop = "docs" =>
          \A j \in 1..Len(payload) : \A i \in 1..Len(payload[j].id_score_tups) :
             LET id == StrInt(payload[j].id_score_tups[i][1])
             IN  id > 0 /\ id \div 10000 = StrInt(payload[j].doc_id)
    /\ pop = "singles" =>
          \A j \in 1..Len(payload) :
             LET id == StrInt(payload[j].sentence_id)
             IN  id > 0 /\ id \div 10000 = StrInt(payload[j].doc_id)
    /\ pop = "api" =>
          \A j \in 1..Len(payload) : StrInt(payload[j].sentence_id) > 0

\* C14 witness: of a search result with the sentinel -1, the id 0 and a
\* sentence of document 1, the dt_sim payload holds the one record of
\* document 1.
C14_Witness ==
    /\ pop = "docs"
    /\ {sr[i][2] : i \in 1..Len(sr)} = {-1, 0, 10001}
    /\ Len(payload) = 1
    /\ payload[1].doc_id = <<"1">>

\* The step is a query_corpus call that found the vectorizer failing.
VectorizerFailed ==
    /\ ncalls' = ncalls + 1
    /\ \/ qret'.args.id = ncalls' /\ ~qret'.args.ok /\ qret'.kind # "cached"
       \/ qargs'.id = ncalls' /\ ~qargs'.ok

\* The step ends a query_corpus call that repeats, with the vectorizer
\* working, the call before it that failed on the vectorizer.
RetryEnds == qpc = "search" /\ qpc' = "idle" /\ qargs.retry

\* C15: when the vectorizer fails, query_corpus raises, no search is
\* dispatched, and the memoization caches, the search lock and n_queries stay
\* as they are; the same call made again with the vectorizer working runs
\* the search and returns a result.
C15_VectorizerFailureSurfaced ==
    [][ /\ VectorizerFailed =>
              /\ qret'.kind = "raised"
              /\ qpc' = "idle"
              /\ pc' = pc /\ call' = call /\ sent' = sent /\ pipes' = pipes
              /\ q_cache' = q_cache /\ search_cache' = search_cache
              /\ lock' = lock
              /\ n_queries' = n_queries
        /\ RetryEnds =>
              /\ qret'.kind = "returned"
              /\ n_queries' = n_queries + 1
      ]_vars

\* The places, in the dict of shards, of the shards whose name carries no
\* date.
UndatedMounted == { j \in 1..Len(shards) : ReSearchIsNone(shards[j].name) }

\* The step ends the search call of t (by a return or by an exception).
SearchEnds(t) == call[t].op = "search" /\ pc[t] # "idle" /\ pc'[t] = "idle"

\* C16: with a shard mounted whose name carries no ISO date, a search over
\* the default window completes and has dispatched to that shard, and a
\* search over a restricted window completes without dispatching to it.
C16_UndatedShardSearch ==
    [][ \A t \in Threads :
          SearchEnds(t) /\ UndatedMounted # {} =>
              /\ ret'[t].kind = "computed"
              /\ IF call[t].args.start = DateMin /\ call[t].args.end = DateMax
                 THEN UndatedMounted \subseteq sent[t]
                 ELSE UndatedMounted \cap sent[t] = {}
      ]_vars

\* The sum of the posting-list lengths of the index files at the paths.
RECURSIVE ListLenSum(_, _)
ListLenSum(f, paths) ==
    IF paths = <<>> THEN 0
    ELSE Len(f[Head(paths)].ids) + ListLenSum(f, Tail(paths))

\* The index written at index_path has, as ntotal, the sum of the list
\* lengths of the sources, which is the length of its own lists on disk.
MergedTotalRight(index_path, sources) ==
    LET out == files'[index_path]
    IN  /\ out.ntotal = ListLenSum(files, sources)
        /\ out.ntotal = Len(files'[out.data].ids)
        /\ Len(sources) = 1 => out.ntotal = files[sources[1]].ntotal

\* C17: a merge (merge_IVFs, build_disk_index) stores as the output index's
\* ntotal, and returns, the sum of the posting-list lengths of its sources,
\* which is the sum of the output's posting-list lengths; the merge of one
\* source has the ntotal of that source.
C17_MergedTotalIsSumOfLists ==
    [][ /\ bpc = "m_write" /\ files' # files =>
              /\ MergedTotalRight(margs.index_path, margs.ivfindex_paths)
              /\ bpc' = "idle" =>
                    /\ bret'.kind = "returned"
                    /\ bret'.val = files'[margs.index_path].ntotal
        /\ ( /\ bpc = "idle" /\ nbcalls' = nbcalls + 1
             /\ bret'.args.op = "build_disk_index"
             /\ bret'.kind = "returned" ) =>
              /\ MergedTotalRight(bret'.args.index_path, invlist_paths)
              /\ bret'.val = files'[bret'.args.index_path].ntotal
      ]_vars

\* A merge of three sources with 1, 2 and 1 entries has returned 4.
C17_Witness ==
    /\ bpc = "idle"
    /\ bret.kind = "returned"
    /\ bret.args.op = "merge_IVFs"
    /\ bret.args.ivfindex_paths = <<MvA, MvB, MvD>>
    /\ bret.val = 4
    /\ bret.args.index_path \in DOMAIN files
    /\ files[bret.args.index_path].ntotal = 4

\* The base index can be read and is not trained or has vectors in it.
BadBase(f) ==
    /\ BasePath \in DOMAIN f
    /\ f[BasePath].kind = "index"
    /\ ~f[BasePath].trained \/ f[BasePath].ntotal > 0

\* The step is a whole call of generate_subindex (on a clear path),
\* generate_invlist or build_disk_index (on sources that can be read): the
\* calls that get to load the base index.
LoadsBaseAtOnce ==
    /\ bpc = "idle" /\ bpc' = "idle" /\ nbcalls' = nbcalls + 1
    /\ \/ /\ bret'.args.op = "generate_subindex"
          /\ index_path_clear(files, bret'.args.index_path)
       \/ bret'.args.op = "generate_invlist"
       \/ /\ bret'.args.op = "build_disk_index"
          /\ \A j \in 1..Len(invlist_paths) : CanRead(files, invlist_paths[j])

\* The step of merge_IVFs that loads the base index, its sources being read.
MergeLoadsBase ==
    /\ bpc = "m_read"
    /\ \A j \in 1..Len(margs.ivfindex_paths) : CanRead(files, margs.ivfindex_paths[j])

\* C18: with a base index that is untrained or holds vectors, every builder
\* operation that gets to load it (generate_subindex, merge_IVFs,
\* generate_invlist, build_disk_index) ends with an exception, has written
\* no file and leaves the catalogues as they were.
C18_BadBaseFailsClean ==
    [][ BadBase(files) =>
          /\ LoadsBaseAtOnce =>
                /\ bret'.kind = "raised" /\ bret'.why = "Exception"
                /\ files' = files
                /\ subindex_path_totals' = subindex_path_totals
                /\ invlist_paths' = invlist_paths
          /\ MergeLoadsBase =>
                /\ bpc' = "idle"
                /\ bret'.kind = "raised" /\ bret'.why = "Exception"
                /\ files' = files0
                /\ subindex_path_totals' = subindex_path_totals
                /\ invlist_paths' = invlist_paths
      ]_vars

\* build_disk_index has failed on a base index that is not trained.
C18_Witness ==
    /\ bpc = "idle"
    /\ ~files[BasePath].trained
    /\ bret.kind = "raised" /\ bret.why = "Exception"
    /\ bret.args.op = "build_disk_index"

\* The entries search took from the shard result it has just read.
KeptBy(t) == SubSeq(DI'[t], Len(DI[t]) + 1, Len(DI'[t]))

\* C19: from each shard's range-search result, in whatever order it comes,
\* search keeps the k entries of smallest distance (all of them when there
\* are fewer than k): no entry left behind is nearer than an entry kept.
C19_KeepsKSmallest ==
    [][ \A t \in Threads :
          pc[t] = "get" /\ pc'[t] = "empty" =>
              LET di   == Head(results).di
                  k    == call[t].args.k
                  kept == KeptBy(t)
                  left == { di[j] : j \in 1..Len(di) } \ { kept[i] : i \in 1..Len(kept) }
              IN  /\ Len(kept) = IF k < Len(di) THEN k ELSE Len(di)
                  /\ \A i \in 1..Len(kept) : \E j \in 1..Len(di) : kept[i] = di[j]
                  /\ \A i \in 1..Len(kept) : \A x \in left : kept[i][1] <= x[1]
      ]_vars

\* No mounted shard has its date in the window of the call.
NoShardInWindow(a) ==
    \A j \in 1..Len(shards) :
        ~ReSearchIsNone(shards[j].name) =>
            ~InWindow(a.start, ReSearchGroup(shards[j].name), a.end)

\* C20: every search call that has acquired the lock returns in the end,
\* having taken from the results queue exactly one result for each shard it
\* dispatched to; when no shard's date is in the window the call dispatches
\* to no worker, never waits on the queue and returns an empty result with
\* the lock released.
C20_SearchReturns ==
    /\ \A t \in Threads :
          (call[t].op = "search" /\ pc[t] = "iter")
              ~> (pc[t] = "idle" /\ ret[t].kind = "computed")
    /\ [][ \A t \in Threads :
             pc[t] = "unlock" /\ pc'[t] = "idle" =>
                 /\ n_results[t] = 0
                 /\ NoShardInWindow(call[t].args) =>
                       /\ sent[t] = {}
                       /\ ret'[t].val = <<>>
                       /\ lock' = FALSE
         ]_vars
    /\ [](\A t \in Threads :
             call[t].op = "search" /\ NoShardInWindow(call[t].args) => pc[t] # "get")

\* An in-window shard that the loop of the call of t has not come to yet.
AwaitsQuery(t) ==
    \E j \in (it[t] + 1)..Len(shards) :
        /\ ~ReSearchIsNone(shards[j].name)
        /\ InWindow(call[t].args.start, ReSearchGroup(shards[j].name),
                    call[t].args.end)

\* C21: within one search the query is handed to every in-window shard
\* without waiting for the range search of an earlier shard: the caller is
\* never held in a shard's range search while another in-window shard has
\* not been handed the query.
C21_DispatchDoesNotWait ==
    \A t \in Threads :
        call[t].op = "search" /\ pc[t] = "recv" => ~AwaitsQuery(t)

\* The shards of a date that were in to_dir when the zip_indexes call began.
StaleOfDate(a, d) ==
    {x \in IndexFilesIn(files0, a.to_dir) : StrContains(x, d)}

\* The outputs of the zip_indexes call are all written.
OutputsWritten(a) ==
    \A d \in MovingDates(a) :
        new_idx_path(a.to_dir, d, a.partial_filename) \in DOMAIN files

\* C22: in zip_indexes a shard that to_dir already holds for a date being
\* zipped is in the group of the date once and in the list of stale files
\* once; its pair of files stays until every output is written and is gone
\* after the removal of the stale files; when the call has returned 1 its
\* vectors are in the output of the date; when a merge (or anything before
\* the removal) has failed, the pair is as it was.
C22_StaleMergedThenDeletedOnce ==
    /\ Grouped =>
          \A d \in MovingDates(bargs) : \A x \in StaleOfDate(bargs, d) :
             /\ \A j \in GroupsOf(d) : Count(moving_groups[j].group, x) = 1
             /\ Count(stale_files, x) = 1
             /\ bpc # "z_prompt" =>
                   /\ x \in DOMAIN files /\ files[x] = files0[x]
                   /\ ivfdata_of(x) \in DOMAIN files
             /\ bpc = "z_prompt" =>
                   /\ x \notin DOMAIN files
                   /\ ivfdata_of(x) \notin DOMAIN files
                   /\ OutputsWritten(bargs)
    /\ (bpc = "idle" /\ bret.args.op = "zip_indexes") =>
          \A d \in MovingDates(bret.args) : \A x \in StaleOfDate(bret.args, d) :
             /\ (bret.kind = "returned" /\ bret.val = 1) =>
                   /\ x \notin DOMAIN files
                   /\ Range(files0[x].ids) \subseteq
                         Range(files[new_idx_path(bret.args.to_dir, d,
                                                  bret.args.partial_filename)].ids)
             /\ (bret.kind = "raised" /\ bret.why # "FileNotFoundError") =>
                   /\ x \in DOMAIN files /\ files[x] = files0[x]
                   /\ ivfdata_of(x) \in DOMAIN files

\* The sub-indexes without a date that zip_indexes found in mv_dir when the
\* call began.
MovingUndated(a) ==
    {x \in IndexFilesIn(files0, a.mv_dir) : ReSearchIsNone(x)}

\* C23: in zip_indexes a sub-index whose path has no ISO date gets a group
\* of its own, is merged into an output of its own, and does not make the
\* call fail.
C23_UndatedGetsOwnGroup ==
    /\ Grouped =>
          \A x \in MovingUndated(bargs) :
             /\ \E j \in 1..Len(moving_groups) : moving_groups[j].group = <<x>>
             /\ \A j \in 1..Len(moving_groups) :
                   x \in Range(moving_groups[j].group) =>
                       moving_groups[j].group = <<x>>
    /\ (bpc = "idle" /\ bret.args.op = "zip_indexes") =>
          \A x \in MovingUndated(bret.args) :
             /\ ~(bret.kind = "raised" /\ bret.why = "AttributeError")
             /\ (bret.kind = "returned" /\ bret.val = 1) =>
                   \E y \in DOMAIN files \ DOMAIN files0 :
                      /\ files[y].kind = "index"
                      /\ files[y].ids = files0[x].ids

\* The sub-indexes of mv_dir whose path holds two ISO dates.
MovingTwoDates(a) ==
    {x \in IndexFilesIn(files0, a.mv_dir) :
        \E i \in 1..Len(x) : \E j \in (i + 10)..Len(x) :
            date_seed(x, i) /\ date_seed(x, j)}

\* C24: zip_indexes rejects a sub-index whose filename holds two ISO dates:
\* the file is never placed in a group, the call fails, and no output is
\* written.
C24_TwoDatesRejected ==
    /\ Grouped =>
          \A x \in MovingTwoDates(bargs) :
             \A j \in 1..Len(moving_groups) :
                x \notin Range(moving_groups[j].group)
    /\ (bpc = "idle" /\ bret.args.op = "zip_indexes"
          /\ MovingTwoDates(bret.args) # {}) =>
          /\ bret.kind = "raised"
          /\ files = files0

\* The documents of the search result sr: the hits with a positive id, by
\* id // 10000.
DocOfHit(i) == sr[i][2] \div 10000
HitsOfDoc(d) == {i \in 1..Len(sr) : sr[i][2] > 0 /\ DocOfHit(i) = d}
DocsOfResult == {DocOfHit(i) : i \in {h \in 1..Len(sr) : sr[h][2] > 0}}
FirstHit(d) == CHOOSE i \in HitsOfDoc(d) : \A h \in HitsOfDoc(d) : i <= h

\* Two documents have the same sorted list of floored scores: every floored
\* score occurs as often in one as in the other.
Floored(v) == IF v < 1 THEN 1 ELSE v
SameScoreList(d, e) ==
    \A v \in {Floored(x) : x \in HitScores} :
        Cardinality({i \in HitsOfDoc(d) : Floored(sr[i][1]) = v})
      = Cardinality({i \in HitsOfDoc(e) : Floored(sr[i][1]) = v})

\* The documents that are first, in the order of the search result, among
\* those with their score list.
FirstOfScoreList ==
    {d \in DocsOfResult :
        \A e \in DocsOfResult : SameScoreList(d, e) => FirstHit(d) <= FirstHit(e)}

MinScoreOfDoc(d) ==
    CHOOSE v \in {Floored(sr[i][1]) : i \in HitsOfDoc(d)} :
        \A i \in HitsOfDoc(d) : v <= Floored(sr[i][1])

\* C26: in every record of the dt_sim processor the hits of the document
\* are in ascending order of score and the score of the record is the least
\* score of these hits; format_payload_singles reports, for each document,
\* the hit with the least score.
C26_HitsAscendingScoreIsMin ==
    /\ pop = "docs" =>
          \A j \in 1..Len(payload) :
             LET tups == payload[j].id_score_tups
             IN  /\ \A i \in 1..(Len(tups) - 1) :
                       ParseFloat(tups[i][2]) <= ParseFloat(tups[i + 1][2])
                 /\ \A i \in 1..Len(tups) :
                       ParseFloat(payload[j].score) <= ParseFloat(tups[i][2])
                 /\ \E i \in 1..Len(tups) : payload[j].score = tups[i][2]
    /\ pop = "singles" =>
          \A j \in 1..Len(payload) :
             LET d == StrInt(payload[j].doc_id)
             IN  /\ ParseFloat(payload[j].score) = MinScoreOfDoc(d)
                 /\ \E i \in HitsOfDoc(d) :
                       /\ IntStr(sr[i][2]) = payload[j].sentence_id
                       /\ Floored(sr[i][1]) = MinScoreOfDoc(d)

\* The raw distance the search result holds for the vector with this id
\* string.
RawScoreOf(id_str) ==
    sr[CHOOSE i \in 1..Len(sr) : IntStr(sr[i][2]) = id_str][1]

\* C27: every score in a payload is max(raw distance, 0.01) of its hit, in
\* the dt_sim and in the dt_sim_api processor.
C27_ScoreIsFlooredDistance ==
    /\ pop = "docs" =>
          \A j \in 1..Len(payload) :
             LET tups == payload[j].id_score_tups
             IN  /\ \A i \in 1..Len(tups) :
                       ParseFloat(tups[i][2]) = Floored(RawScoreOf(tups[i][1]))
                 /\ \E i \in 1..Len(tups) : payload[j].score = tups[i][2]
    /\ pop \in {"singles", "api"} =>
          \A j \in 1..Len(payload) :
             ParseFloat(payload[j].score)
                = Floored(RawScoreOf(payload[j].sentence_id))

\* A path without its trailing .index.
TrailingRemoved(path) ==
    IF EndsWith(path, DotIndex)
    THEN SubSeq(path, 1, Len(path) - Len(DotIndex))
    ELSE path

\* C28: the name of a mounted shard is its path with only the trailing
\* .index removed, and every readable path that was mounted, at construction
\* or by add_shard, keeps a map entry of its own: mounting a shard whose name is
\* taken never replaces the entry, so no two paths share one.
C28_OneEntryPerPath ==
    /\ \A j \in 1..Len(shards) :
          shards[j].name = TrailingRemoved(shards[j].path)
    /\ \A i \in 1..Len(paths_to_shards) :
          \/ \E j \in 1..Len(shards) : shards[j].path = paths_to_shards[i]
          \/ \E t \in Threads :
                pc[t] = "a_load" /\ call[t].path = paths_to_shards[i]
          \/ ~Readable(paths_to_shards[i])
    /\ \A i, j \in 1..Len(shards) :
          i # j => shards[i].name # shards[j].name

\* A search call is collecting and the result it waits for has not been
\* delivered: the queue is empty at self.results.get().
AwaitsResult(t) ==
    /\ call[t].op = "search"
    /\ pc[t] = "get"
    /\ results = <<>>

\* C29: a search whose deadline passes while a dispatched worker has not
\* delivered its result stops collecting, returns what it has gathered and
\* releases the lock: a call that waits for a result always returns, and the
\* lock is free when it has.
C29_SearchEndsWithoutResult ==
    /\ \A t \in Threads : AwaitsResult(t) ~> pc[t] = "idle"
    /\ [][ \A t \in Threads :
             call[t].op = "search" /\ pc[t] # "idle" /\ pc'[t] = "idle" =>
                 lock' = FALSE ]_vars

\* Every vector id stored in some .index file of the file system fs.
IndexedIds(fs) ==
    UNION {Range(fs[x].ids) : x \in {y \in DOMAIN fs : fs[y].kind = "index"}}

\* C30: zip_indexes loses no indexed vector. When the call has ended, with
\* either answer to the prompt, every vector id that was in some .index
\* file when it began is in some .index file.
C30_NoVectorLost ==
    (bpc = "idle" /\ bret.args.op = "zip_indexes") =>
        IndexedIds(files0) \subseteq IndexedIds(files)

\* What search keeps of the range search of its own query on the shard at
\* position j of the map.
OwnResult(t, j) ==
    Take(neighborhood(shards[j].path, call[t].args.q, call[t].args.radius),
         call[t].args.k)

\* C31: concurrent searches share the results queue, and still every entry
\* a call returns comes from a range search of the call's own query vector
\* and radius, and a call returns the results of all the shards it
\* dispatched to. The result a call takes from the queue was computed for
\* its query and radius, and when the call returns it holds, for every shard
\* it sent the query to, what it keeps of that shard's result.
C31_OwnResultsOnly ==
    [][ \A t \in Threads :
          /\ (call[t].op = "search" /\ pc[t] = "get" /\ pc'[t] = "empty") =>
                /\ Head(results).q = call[t].args.q
                /\ Head(results).radius = call[t].args.radius
          /\ (call[t].op = "search" /\ pc[t] = "unlock" /\ pc'[t] = "idle") =>
                \A j \in sent[t] :
                   \A i \in 1..Len(OwnResult(t, j)) :
                      \E h \in 1..Len(DI[t]) : DI[t][h] = OwnResult(t, j)[i]
      ]_vars

\* C32: no builder operation overwrites an existing file. Every file that
\* is there before a step of a builder call and after it has the content it
\* had, the base index file among them.
C32_NoFileOverwritten ==
    [][ \A x \in DOMAIN files \cap DOMAIN files' : files'[x] = files[x] ]_vars

\* C33: after construction and after every add_shard call, n_shards is the
\* number of entries of the shard map, which is the number of entries of
\* paths_to_shards.
C33_ShardCountsAgree ==
    (\A t \in Threads : Idle(t)) =>
        /\ n_shards = Len(shards)
        /\ Len(shards) = Len(paths_to_shards)

====
